---- MODULE Spec2Model ----
(***************************************************************************)
(* Cleanup workflow engine of the bookmarks manager: the zustand cleanup   *)
(* store (selection, soft delete, moves, folder creation, undo), the       *)
(* OperationHistory class and the AI result cache.                         *)
(*                                                                         *)
(* Specifications over the shared variables:                               *)
(*   Spec           the cleanup store driven by the organize-stage handlers *)
(*   SpecMove       the cleanup store driven by selection, delete, move, undo *)
(*   SpecReview     the cleanup store driven by the review-stage handlers   *)
(*   SpecFolders    the cleanup store driven by folder creation and undo    *)
(*   SpecNavigation stages, selection and filters of the cleanup store      *)
(*   SpecSession    saveSession, loadSession and a reload of the page       *)
(*   SpecSaving     saveSession while deletes, moves and undos go on        *)
(*   SpecLoading    loadSession with reads that answer, reject or do not decode *)
(*   SpecRequests   the AI request handlers across reset and a new session *)
(*   SpecHistory    the OperationHistory class driven by its three mutators *)
(*   SpecCache      cacheService.getOrCompute over the aiCache table        *)
(*   SpecLimits     callLLM of one caller under usage limits                *)
(*   SpecPipeline   callLLM of one caller against every answer              *)
(*   SpecSpacing    callLLM of two overlapping callers                      *)
(*   SpecAnalysis   analyzeForCleanup batch by batch                        *)
(*   SpecSuggest    suggestFolderStructure over edited bookmarks            *)
(*   SpecFilters    combineFilters of the bookmark selector                 *)
(***************************************************************************)
EXTENDS Integers, Sequences, FiniteSets, TLC

(***************************************************************************)
(* Bounds of the model and constants of the program                        *)
(***************************************************************************)
\* number of delete / move / createFolder / acceptFolderSuggestion calls of a run
MaxOps == 2
\* number of undo calls that may be suspended on their store write at once
MaxUndoInFlight == 2
\* undoService.ts: const MAX_HISTORY_SIZE = 10
MAX_HISTORY_SIZE == 10
\* entries a run of SpecHistory lets recordOperation trim
MaxDropped == 2
\* longest list handed to OperationHistory.restore
MaxSavedLen == 12
\* largest value of the clock in SpecCache
MaxTime == 3
\* number of sessions initWorkflow may start in a run
MaxSessions == 2
\* number of session records a run may write or have in flight
MaxSaves == 1
\* cleanupAnalysis.ts, aiService.ts: const MIN_REQUEST_INTERVAL_MS = 100
MIN_REQUEST_INTERVAL_MS == 100
\* ai/constants: attempts of callLLM and of BaseLLMAdapter.withRetry
MAX_RETRIES == 3
\* ai/constants: base delay of the exponential backoff, in milliseconds
RETRY_DELAY_MS == 1000
\* adapters/base.ts: `let retryAfterMs = 60000 // Default 1 minute`
DefaultRetryAfterMs == 60000
\* Date.now() when the model starts
StartMs == 5000
\* callLLM calls of a run
MaxCalls == 2
\* longest list of bookmarks handed to analyzeForCleanup
MaxRecords == 3
\* largest batchSize option handed to analyzeForCleanup
MaxBatchSize == 2
\* cleanupAnalysis.ts: `options?.batchSize || 20`
DefaultBatchSize == 20
\* combineFilters calls of a run
MaxFilterCalls == 1
\* bookmarks handed to analyzeForCleanup over all the calls of a run
MaxSubmitted == 3
\* handleRequestAIAnalysis / handleRequestAICategorization calls of a run
MaxRequests == 2
\* suggestFolderStructure calls of a run
MaxSuggestCalls == 2
\* how long a remote request takes at least, and how far the clock may run
\* on such steps, in milliseconds
LatencyMs == 10
MaxClockMs == 5010

(***************************************************************************)
(* Data: bookmark ids, folder names and paths                              *)
(***************************************************************************)
\* "a" and "b" are records of the merged bookmark list; "x" is an id that
\* names no record (the remote model's answer is not checked against the
\* records sent, cleanupAnalysis.ts:231-237).
Ids == {"a", "b", "x"}

\* String.prototype.toLowerCase on the names used here
toLowerCase(s) ==
    CASE s = "Dev" -> "dev"
      [] s = "Ops" -> "ops"
      [] OTHER -> s

\* bookmarksStore.mergedItems handed to initWorkflow
mergedItems ==
    << [id |-> "a", path |-> <<>>], [id |-> "b", path |-> <<"Dev">>] >>

\* folder paths handed to createFolder
FolderPaths ==
    { <<>>, <<"dev">>, <<"Ops">>, <<"dev", "ops">>, <<"">> }

\* folder paths handed to createFolder, one of them in two spellings
FolderPathsAnyCase ==
    FolderPaths \cup { <<"ops">> }

\* target paths handed to moveBookmarksToFolder from the folder tree
MoveTargets ==
    { <<>>, <<"Dev", "Ops">> }

\* target paths handed to moveBookmarksToFolder, a folder named "" included
TargetPaths ==
    MoveTargets \cup { <<"">> }

\* id lists handed to moveBookmarksToFolder
IdLists ==
    { <<"a">>, <<"b", "a">>, <<"x">> }

RecommendationTypes == {"delete", "keep", "review"}

(***************************************************************************)
(* Array helpers                                                           *)
(***************************************************************************)
Range(s) == { s[i] : i \in 1..Len(s) }

\* Array.prototype.filter
Filter(s, Test(_)) == SelectSeq(s, Test)

\* Array.prototype.slice(-n): the last n elements, all of them when n >= length
SliceLast(s, n) ==
    IF Len(s) <= n THEN s ELSE SubSeq(s, Len(s) - n + 1, Len(s))

\* Array.prototype.slice(0, -1)
SliceButLast(s) ==
    IF Len(s) = 0 THEN <<>> ELSE SubSeq(s, 1, Len(s) - 1)

\* the ids of a list of bookmarks
IdsOf(bs) == { bs[i].id : i \in 1..Len(bs) }

\* bookmark?.path || [] for workingBookmarks.find(b => b.id === id)
PathOfId(bookmarks, id) ==
    IF \E i \in 1..Len(bookmarks) : bookmarks[i].id = id
    THEN bookmarks[CHOOSE i \in 1..Len(bookmarks) :
                      /\ bookmarks[i].id = id
                      /\ \A j \in 1..(i - 1) : bookmarks[j].id # id].path
    ELSE <<>>

(***************************************************************************)
(* undoService.ts: class OperationHistory                                  *)
(***************************************************************************)
\* recordOperation without the trimming of the oldest entries
recordOperationUntrimmed(history, operation) == Append(history, operation)

\* recordOperation: push, then keep the last MAX_HISTORY_SIZE entries
recordOperation(history, operation) ==
    LET pushed == Append(history, operation)
    IN  IF Len(pushed) > MAX_HISTORY_SIZE
        THEN SliceLast(pushed, MAX_HISTORY_SIZE)
        ELSE pushed

\* peekLast: the most recent entry (only used where the history is not empty)
peekLast(history) == history[Len(history)]

\* popLast: Array.prototype.pop, the history it leaves
popLast(history) == SliceButLast(history)

canUndo(history) == Len(history) > 0

\* restore: this.history = operations.slice(-MAX_HISTORY_SIZE)
restore(operations) == SliceLast(operations, MAX_HISTORY_SIZE)

(***************************************************************************)
(* cleanupService.ts                                                       *)
(***************************************************************************)
\* A CleanupOperation.  The three payloads share one record shape; the
\* fields a kind does not carry are empty.  id and timestamp are never read.
createDeleteOperation(bookmarks) ==
    [type |-> "delete", bookmarks |-> bookmarks, moves |-> <<>>, path |-> <<>>]

createMoveOperation(bookmarks, moves) ==
    [type |-> "move", bookmarks |-> <<>>,
     moves |-> [i \in 1..Len(moves) |->
                  [bookmarkId |-> moves[i].bookmarkId,
                   fromPath |-> moves[i].fromPath,
                   toPath |-> moves[i].toPath]],
     path |-> <<>>]

createFolderOperation(path) ==
    [type |-> "create_folder", bookmarks |-> <<>>, moves |-> <<>>, path |-> path]

\* a bookmark lies under parentPath: every parent segment equal ignoring case
isUnderParent(bookmark, parentPath) ==
    \A i \in 1..Len(parentPath) :
        toLowerCase(bookmark.path[i]) = toLowerCase(parentPath[i])

folderNameExistsAtLevel(bookmarks, parentPath, folderName) ==
    LET level == Len(parentPath) + 1
        existingFolders ==
            { toLowerCase(bookmarks[i].path[level]) :
                i \in { j \in 1..Len(bookmarks) :
                          /\ Len(bookmarks[j].path) > Len(parentPath)
                          /\ isUnderParent(bookmarks[j], parentPath)
                          \* if (folderAtLevel): the empty string is falsy
                          /\ bookmarks[j].path[level] # "" } }
    IN  toLowerCase(folderName) \in existingFolders

\* restoreDeletedBookmarks / moveBookmarks: success unless the store write throws
restoreDeletedBookmarks(bookmarks, storeOk) == [success |-> storeOk]

moveBookmarks(bookmarks, moves, storeOk) == [success |-> storeOk]

(***************************************************************************)
(* undoService.ts: executeUndo                                             *)
(***************************************************************************)
\* An UndoResult; defined is the set of optional fields that are present.
UndoFailure ==
    [success |-> FALSE, defined |-> {}, restoredBookmarks |-> <<>>,
     revertedMoves |-> <<>>, removedFolder |-> <<>>]

\* undoDeleteOperation that answers success without the restored records
undoDeleteOperationEmpty(data, storeOk) ==
    IF ~restoreDeletedBookmarks(data.bookmarks, storeOk).success
    THEN UndoFailure
    ELSE [success |-> TRUE, defined |-> {}, restoredBookmarks |-> <<>>,
          revertedMoves |-> <<>>, removedFolder |-> <<>>]

undoDeleteOperation(data, storeOk) ==
    IF ~restoreDeletedBookmarks(data.bookmarks, storeOk).success
    THEN UndoFailure
    ELSE [success |-> TRUE, defined |-> {"restoredBookmarks"},
          restoredBookmarks |-> data.bookmarks,
          revertedMoves |-> <<>>, removedFolder |-> <<>>]

\* undoMoveOperation that reports the path moved to instead of the path moved from
undoMoveOperationToPath(data, currentBookmarks, storeOk) ==
    IF ~moveBookmarks(currentBookmarks, <<>>, storeOk).success
    THEN UndoFailure
    ELSE [success |-> TRUE, defined |-> {"revertedMoves"},
          restoredBookmarks |-> <<>>,
          revertedMoves |-> [i \in 1..Len(data.moves) |->
                               [bookmarkId |-> data.moves[i].bookmarkId,
                                path |-> data.moves[i].toPath]],
          removedFolder |-> <<>>]

undoMoveOperation(data, currentBookmarks, storeOk) ==
    LET reverseMoves == [i \in 1..Len(data.moves) |->
                           [bookmarkId |-> data.moves[i].bookmarkId,
                            fromPath |-> data.moves[i].toPath,
                            toPath |-> data.moves[i].fromPath]]
    IN  IF ~moveBookmarks(currentBookmarks, reverseMoves, storeOk).success
        THEN UndoFailure
        ELSE [success |-> TRUE, defined |-> {"revertedMoves"},
              restoredBookmarks |-> <<>>,
              revertedMoves |-> [i \in 1..Len(data.moves) |->
                                   [bookmarkId |-> data.moves[i].bookmarkId,
                                    path |-> data.moves[i].fromPath]],
              removedFolder |-> <<>>]

\* undoCreateFolderOperation that answers success without the removed path
undoCreateFolderOperationNoPath(data) ==
    [success |-> TRUE, defined |-> {}, restoredBookmarks |-> <<>>,
     revertedMoves |-> <<>>, removedFolder |-> <<>>]

undoCreateFolderOperation(data) ==
    [success |-> TRUE, defined |-> {"removedFolder"}, restoredBookmarks |-> <<>>,
     revertedMoves |-> <<>>, removedFolder |-> data.path]

executeUndo(operation, currentBookmarks, storeOk) ==
    CASE operation.type = "delete" -> undoDeleteOperation(operation, storeOk)
      [] operation.type = "move" ->
            undoMoveOperation(operation, currentBookmarks, storeOk)
      [] operation.type = "create_folder" -> undoCreateFolderOperation(operation)
      [] OTHER -> UndoFailure

(***************************************************************************)
(* Inputs of the store handlers                                            *)
(***************************************************************************)
\* an AICleanupRecommendation as analyzeForCleanup returns it (flags unset)
Recommendation(id, type) ==
    [bookmarkId |-> id, recommendation |-> type, accepted |-> FALSE, rejected |-> FALSE]

\* results of analyzeForCleanup handed to setAIRecommendations
RecommendationLists ==
    { << Recommendation("a", "delete"), Recommendation("x", "review") >> }

\* a SuggestedFolder (name and description are display text)
Suggestion(path, ids) == [path |-> path, suggestedBookmarkIds |-> ids]

\* results of suggestFolderStructure handed to setSuggestedFolders
SuggestionLists ==
    { << Suggestion(<<"Ops">>, <<"a", "b">>), Suggestion(<<"Dev">>, <<"a">>),
         Suggestion(<<"dev", "ops">>, <<>>) >> }

(***************************************************************************)
(* State                                                                   *)
(***************************************************************************)
VARIABLES
    \* useCleanupStore: CleanupState
    workflowStarted,
    hasUnsavedChanges,
    workingBookmarks,
    selectedBookmarkIds,
    deletedBookmarkIds,
    aiRecommendations,
    suggestedFolders,
    pendingMoves,
    createdFolders,
    operationHistory,
    \* the undo calls suspended at `await executeUndo(...)`, each with the
    \* operation it popped and the state it read before suspending
    undoInFlight,
    \* what the last createFolder call returned to its caller
    returned,
    \* recording calls the run may still make (bound of the model)
    opsLeft,
    \* history variable: the state before and after the most recent recording
    \* call and how far an undo issued straight after it has come
    trail,
    \* history variable: entries recordOperation has trimmed off the history
    dropped,
    \* db.aiCache: cache key -> entry, NoEntry where the table has none
    aiCache,
    \* Date.now()
    now,
    \* the getOrCompute calls in progress, one slot per caller
    cacheCalls,
    \* what the last getOrCompute call to return handed to its caller
    cacheReturned,
    \* useCleanupStore: currentStage, sessionId (0 for null) and filters
    currentStage,
    sessionId,
    filters,
    \* the saveSession calls suspended at `await saveCleanupSession(...)`, each
    \* with the session it built before suspending
    saveInFlight,
    \* what the last loadSession call returned to its caller
    loadReturned,
    \* crypto.randomUUID() results drawn so far
    uuids,
    \* db.cleanupSessions in ascending updatedAt order
    cleanupSessions,
    \* history variable: per session id, the session as it was when its
    \* record of cleanupSessions was last built, NoSnapshot when never
    savedFrom,
    \* db.aiUsageLimits: the four optional ceilings, 0 where none is stored
    usageLimits,
    \* db.aiUsage summed as getTodayStats and getMonthStats sum it: the
    \* records of today and those of the earlier days of this month
    aiUsage,
    \* `let lastRequestTime` of each of the two analysis modules
    lastRequestTime,
    \* Date.now() in milliseconds, as the invocation pipeline reads it
    clockMs,
    \* the callLLM calls: where each stands and what it has done so far
    llmCalls,
    \* history variable: when the latest remote request was sent, 0 for none
    lastDispatch,
    \* callLLM calls started so far (bound of the model)
    callsStarted,
    \* the analyzeForCleanup call: its arguments, the offset of its loop, its
    \* results so far and, as history, what each batch was and contributed
    analysis,
    \* the rows of db.aiCache under the keys `health:...`
    healthCache,
    \* bookmarks handed to analyzeForCleanup so far (bound of the model)
    submitted,
    \* the last combineFilters call: its arguments and what it returned, and
    \* the number of calls so far (bound of the model)
    filtered,
    \* useCleanupStore: isLoading
    isLoading,
    \* a loadSession call is suspended at `await getLatestCleanupSession()`
    loadInFlight,
    \* history variable: how the read of the last loadSession call to return
    \* ended, "none" before any has returned
    loadRead,
    \* useCleanupStore: isAnalyzing and analysisError ("null" for null)
    isAnalyzing,
    analysisError,
    \* the handleRequestAIAnalysis / handleRequestAICategorization calls
    \* suspended at their await, each with the session it was dispatched in
    aiRequests,
    \* the rows of db.aiCache under the keys `category:...`
    categoryCache,
    \* history variable: per `category:` key, the bookmarks whose remote
    \* call produced the row stored under it
    categoryMadeFrom,
    \* the suggestFolderStructure call: its arguments, where it stands, the
    \* remote calls it made and, as bound of the model, the calls so far
    suggestCall

storeVars ==
    << workflowStarted, hasUnsavedChanges, workingBookmarks, selectedBookmarkIds,
       deletedBookmarkIds, aiRecommendations, suggestedFolders, pendingMoves,
       createdFolders, operationHistory, undoInFlight, returned, opsLeft, trail >>

\* the store fields of stage navigation, filtering and session persistence
navVars == << currentStage, sessionId, filters, saveInFlight, loadReturned, uuids >>

cacheVars == << aiCache, now, cacheCalls, cacheReturned >>

\* the cleanupSessions table and its history variable
persistVars == << cleanupSessions, savedFrom >>

\* what the handlers of the cleanup workflow never touch
\* the state of the invocation pipeline around the remote model
llmVars ==
    << usageLimits, aiUsage, lastRequestTime, clockMs, llmCalls, lastDispatch,
       callsStarted >>

\* the state of the batch analysis
analysisVars == << analysis, healthCache, submitted >>

\* what the bookmark selector computes from the store
viewVars == << filtered >>

\* the flags of the store around loading and AI requests
flagVars ==
    << isLoading, loadInFlight, loadRead, isAnalyzing, analysisError, aiRequests >>

\* the state of the folder suggestion service
suggestVars == << categoryCache, categoryMadeFrom, suggestCall >>

outsideStore ==
    << dropped, cacheVars, persistVars, llmVars, analysisVars, viewVars, flagVars,
       suggestVars >>

vars ==
    << storeVars, navVars, dropped, cacheVars, persistVars, llmVars, analysisVars,
       viewVars, flagVars, suggestVars >>

\* getActiveBookmarks: the working records that are not soft-deleted
getActiveBookmarks ==
    Filter(workingBookmarks, LAMBDA b : b.id \notin deletedBookmarkIds)

ActiveIds == IdsOf(getActiveBookmarks)

\* getChangeSummary: the three counts
getChangeSummary ==
    [deleted |-> Cardinality(deletedBookmarkIds),
     moved |-> Len(pendingMoves),
     newFolders |-> Len(createdFolders)]

\* filteredBookmarks.map(b => b.id) of BookmarkSelector with no filter set
ActiveIdList == [i \in 1..Len(getActiveBookmarks) |-> getActiveBookmarks[i].id]

\* the four fields an undo is meant to restore
Restorable ==
    [deleted |-> deletedBookmarkIds, working |-> workingBookmarks,
     pending |-> pendingMoves, created |-> createdFolders]

NoRestorable ==
    [deleted |-> {}, working |-> <<>>, pending |-> <<>>, created |-> <<>>]

NoTrail ==
    [phase |-> "none", type |-> "none", selected |-> {},
     before |-> NoRestorable, after |-> NoRestorable]

\* the trail a recording call of the given type leaves
TrailOf(type, before, after) ==
    [phase |-> "applied", type |-> type, selected |-> selectedBookmarkIds,
     before |-> before, after |-> after]

\* filters: {} -- no filter is set
NoFilters == [domain |-> "unset", searchQuery |-> "unset"]

\* no record of cleanupSessions has been built
NoSnapshot == [id |-> 0]

\* the store as create(...) builds it
StoreInit ==
    /\ workflowStarted = FALSE
    /\ hasUnsavedChanges = FALSE
    /\ workingBookmarks = <<>>
    /\ selectedBookmarkIds = {}
    /\ deletedBookmarkIds = {}
    /\ aiRecommendations = <<>>
    /\ suggestedFolders = <<>>
    /\ pendingMoves = <<>>
    /\ createdFolders = <<>>
    /\ operationHistory = <<>>
    /\ undoInFlight = <<>>
    /\ returned = FALSE
    /\ opsLeft = MaxOps
    /\ trail = NoTrail
    /\ currentStage = "review"
    /\ sessionId = 0
    /\ filters = NoFilters
    /\ saveInFlight = <<>>
    /\ loadReturned = FALSE
    /\ uuids = 0

\* an absent aiCache row / a caller with no getOrCompute call in progress
NoEntry == [data |-> "none", bookmarkHash |-> "none", expiresAt |-> 0]

IdleCall ==
    [pc |-> "idle", key |-> "none", bookmarkHash |-> "none", ttlMs |-> 0,
     value |-> "none", computes |-> 0]

NoReturn == [caller |-> 0, value |-> "none", fromCache |-> FALSE, computes |-> 0]

CacheKeys == {"k1"}

\* UsageLimits with no ceiling configured
NoLimits ==
    [dailyTokenLimit |-> 0, monthlyTokenLimit |-> 0,
     dailyCostLimit |-> 0, monthlyCostLimit |-> 0]

\* { tokens, cost } of an empty set of usage records
NoUsage == [tokens |-> 0, cost |-> 0]

\* the two modules that hold a callLLM and an enforceRateLimit of their own
Services == {"cleanupAnalysis", "aiService"}

\* the callLLM calls a run may have in progress at once
LLMCalls == {1, 2}

\* no error
NoError == [code |-> "none", isAIServiceError |-> FALSE, retryable |-> FALSE,
            retryAfterMs |-> 0]

\* what the provider may answer to one request: an HTTP status, the
\* retry_after of the error body in seconds (0 when it has none), whether a
\* 200 body parses and has choices, and the usage it reports; status 0 is a
\* request that fetch rejects (no answer at all)
Answer(status, retry_after, wellFormed) ==
    [status |-> status, retry_after |-> retry_after, wellFormed |-> wellFormed,
     totalTokens |-> 1, estimatedCost |-> 1]

\* no request of the call has settled yet
NoAnswer == Answer(-1, 0, FALSE)

\* the bookmarks handed to analyzeForCleanup: the first n of the list
Bookmarks(n) == [i \in 1..n |-> [id |-> i]]

\* Array.prototype.slice(from, to), offsets counted from 0
Slice(s, from, to) ==
    IF from >= Len(s) THEN <<>>
    ELSE SubSeq(s, from + 1, IF to < Len(s) THEN to ELSE Len(s))

\* generateCacheKey('health', generateBookmarkHash(batch.map(b => b.id))): the
\* ids of the batch stand for their hash
HealthKeys ==
    UNION { { [i \in 1..n |-> from + i] : n \in 1..(MaxRecords - from) } :
            from \in 0..(MaxRecords - 1) }

\* an absent row of the `health:` keys (a row's bookmarkHash is never empty)
NoHealthEntry == [data |-> <<>>, bookmarkHash |-> <<>>, expiresAt |-> 0]

\* CleanupFilters with every filter absent: '' for no domain or search text,
\* [] for no folder
AbsentFilters ==
    [domain |-> <<>>, folder |-> <<>>, dateRange |-> [set |-> FALSE, start |-> 0, end |-> 0],
     searchQuery |-> <<>>, recommendationStatus |-> "unset"]

\* the optional `recommendations` argument of combineFilters when it is
\* omitted; a map gives "none" for the ids it has no entry for
NoRecommendationMap == [given |-> FALSE, map |-> [id \in 1..3 |-> "none"]]

\* combineFilters has not been called
NoneFiltered ==
    [bookmarks |-> <<>>, filters |-> AbsentFilters, recommendations |-> NoRecommendationMap,
     result |-> <<>>, calls |-> 0]

\* no analyzeForCleanup call in progress
IdleAnalysis ==
    [pc |-> "idle", bookmarks |-> <<>>, batchSize |-> 0, forceRefresh |-> FALSE,
     i |-> 0, results |-> <<>>, batches |-> <<>>]

\* a callLLM slot that no call occupies
IdleLLMCall ==
    [pc |-> "idle", service |-> "none", blocked |-> FALSE, attempt |-> 0,
     retry |-> 0, wakeAt |-> 0, lastError |-> NoError, thrown |-> NoError,
     chats |-> 0, fetches |-> 0, sleeps |-> 0, slept |-> 0, answer |-> NoAnswer]

Callers == {1, 2}

\* a Bookmark as suggestFolderStructure reads it
SuggestRecord(id, title, url, path) ==
    [id |-> id, title |-> title, url |-> url, path |-> path]

\* bookmark lists handed to suggestFolderStructure: two records, the same
\* two with a title, a URL or a path edited, and the first record alone
SuggestInputs ==
    { << SuggestRecord(1, "news", "n.example", <<>>),
         SuggestRecord(2, "docs", "d.example", <<"Dev">>) >>,
      << SuggestRecord(1, "old news", "n.example", <<>>),
         SuggestRecord(2, "docs", "d.example", <<"Dev">>) >>,
      << SuggestRecord(1, "news", "m.example", <<>>),
         SuggestRecord(2, "docs", "d.example", <<"Dev">>) >>,
      << SuggestRecord(1, "news", "n.example", <<>>),
         SuggestRecord(2, "docs", "d.example", <<"Dev", "Ops">>) >>,
      << SuggestRecord(1, "news", "n.example", <<>>) >> }

\* getUniqueFolders: the top-level folder names of the bookmarks (a sorted
\* array without duplicates, here a set)
getUniqueFolders(bookmarks) ==
    { bookmarks[i].path[1] : i \in { j \in 1..Len(bookmarks) :
                                        Len(bookmarks[j].path) > 0 } }

\* generateCacheKey('category', generateBookmarkHash({ bookmarkIds,
\* existingFolders })): the hashed object stands for its hash
categoryKey(bookmarks, existingFolders) ==
    [bookmarkIds |-> [i \in 1..Len(bookmarks) |-> bookmarks[i].id],
     existingFolders |-> existingFolders]

CategoryKeys ==
    { categoryKey(bookmarks, getUniqueFolders(bookmarks)) : bookmarks \in SuggestInputs }

\* an absent row of the `category:` keys; a row's bookmarkHash is the count
\* that generateBookmarkHash({ count }) hashes
NoCategoryEntry == [data |-> <<>>, bookmarkHash |-> -1, expiresAt |-> 0]

\* no suggestFolderStructure call in progress
IdleSuggestion ==
    [pc |-> "idle", bookmarks |-> <<>>, existingFolders |-> {}, forceRefresh |-> FALSE,
     remoteCalls |-> 0, value |-> <<>>, fromCache |-> FALSE, calls |-> 0]

OutsideInit ==
    /\ dropped = 0
    /\ aiCache = [k \in CacheKeys |-> NoEntry]
    /\ now = 0
    /\ cacheCalls = [c \in Callers |-> IdleCall]
    /\ cacheReturned = NoReturn
    /\ cleanupSessions = <<>>
    /\ savedFrom = [i \in 1..MaxSessions |-> NoSnapshot]
    /\ usageLimits = NoLimits
    /\ aiUsage = [today |-> NoUsage, earlier |-> NoUsage]
    /\ lastRequestTime = [s \in Services |-> 0]
    /\ clockMs = StartMs
    /\ llmCalls = [c \in LLMCalls |-> IdleLLMCall]
    /\ lastDispatch = 0
    /\ callsStarted = 0
    /\ analysis = IdleAnalysis
    /\ healthCache = [k \in HealthKeys |-> NoHealthEntry]
    /\ submitted = 0
    /\ filtered = NoneFiltered
    /\ isLoading = FALSE
    /\ loadInFlight = FALSE
    /\ loadRead = "none"
    /\ isAnalyzing = FALSE
    /\ analysisError = "null"
    /\ aiRequests = <<>>
    /\ categoryCache = [k \in CategoryKeys |-> NoCategoryEntry]
    /\ categoryMadeFrom = [k \in CategoryKeys |-> <<>>]
    /\ suggestCall = IdleSuggestion

Init == StoreInit /\ OutsideInit

(***************************************************************************)
(* Initialization and reset                                                *)
(***************************************************************************)
\* CleanupWorkflow's effect: initWorkflow(mergedItems) while not started
initWorkflow ==
    /\ UNCHANGED outsideStore
    /\ uuids < MaxSessions
    /\ uuids' = uuids + 1
    /\ sessionId' = uuids + 1
    /\ currentStage' = "review"
    /\ UNCHANGED << filters, saveInFlight, loadReturned >>
    /\ ~workflowStarted
    /\ workingBookmarks' = mergedItems
    /\ workflowStarted' = TRUE
    /\ selectedBookmarkIds' = {}
    /\ deletedBookmarkIds' = {}
    /\ aiRecommendations' = <<>>
    /\ suggestedFolders' = <<>>
    /\ pendingMoves' = <<>>
    /\ createdFolders' = <<>>
    /\ operationHistory' = <<>>
    /\ hasUnsavedChanges' = FALSE
    /\ trail' = NoTrail
    /\ UNCHANGED << undoInFlight, returned, opsLeft >>

resetWorkflow ==
    /\ UNCHANGED << dropped, cacheVars, savedFrom, llmVars, analysisVars, viewVars,
                    isLoading, loadInFlight, loadRead, aiRequests, suggestVars >>
    /\ isAnalyzing' = FALSE
    /\ analysisError' = "null"
    /\ cleanupSessions' = Filter(cleanupSessions, LAMBDA r : r.id # sessionId)
    /\ currentStage' = "review"
    /\ sessionId' = 0
    /\ filters' = NoFilters
    /\ UNCHANGED << saveInFlight, loadReturned, uuids >>
    /\ workflowStarted
    /\ workflowStarted' = FALSE
    /\ hasUnsavedChanges' = FALSE
    /\ workingBookmarks' = <<>>
    /\ selectedBookmarkIds' = {}
    /\ deletedBookmarkIds' = {}
    /\ aiRecommendations' = <<>>
    /\ suggestedFolders' = <<>>
    /\ pendingMoves' = <<>>
    /\ createdFolders' = <<>>
    /\ operationHistory' = <<>>
    /\ trail' = NoTrail
    /\ UNCHANGED << undoInFlight, returned, opsLeft >>

(***************************************************************************)
(* Stage navigation                                                        *)
(***************************************************************************)
STAGE_ORDER == << "review", "organize", "preview" >>

\* Array.prototype.indexOf, counted from 1; 0 when absent
indexOf(s, e) ==
    IF \E i \in 1..Len(s) : s[i] = e
    THEN CHOOSE i \in 1..Len(s) : s[i] = e /\ \A j \in 1..(i - 1) : s[j] # e
    ELSE 0

\* what a stage handler leaves alone
StageFrame ==
    UNCHANGED << storeVars, sessionId, filters, saveInFlight, loadReturned, uuids,
                 outsideStore >>

setStage(stage) ==
    /\ workflowStarted
    /\ currentStage' = stage
    /\ StageFrame

\* nextStage that wraps around from the last stage to the first
nextStageWrapping ==
    /\ workflowStarted
    /\ LET currentIndex == indexOf(STAGE_ORDER, currentStage)
       IN  currentStage' = STAGE_ORDER[(currentIndex % Len(STAGE_ORDER)) + 1]
    /\ StageFrame

nextStage ==
    /\ workflowStarted
    /\ LET currentIndex == indexOf(STAGE_ORDER, currentStage)
       IN  IF currentIndex < Len(STAGE_ORDER)
           THEN currentStage' = STAGE_ORDER[currentIndex + 1]
           ELSE UNCHANGED currentStage
    /\ StageFrame

prevStage ==
    /\ workflowStarted
    /\ LET currentIndex == indexOf(STAGE_ORDER, currentStage)
       IN  IF currentIndex > 1
           THEN currentStage' = STAGE_ORDER[currentIndex - 1]
           ELSE UNCHANGED currentStage
    /\ StageFrame

(***************************************************************************)
(* Selection                                                               *)
(***************************************************************************)
SelectionFrame ==
    /\ trail' = NoTrail
    /\ UNCHANGED << workflowStarted, hasUnsavedChanges, workingBookmarks,
                    deletedBookmarkIds, suggestedFolders, pendingMoves,
                    createdFolders, operationHistory, undoInFlight, returned,
                    opsLeft >>

\* BookmarkSelector lists the records that are not soft-deleted
toggleBookmarkSelection(id) ==
    /\ UNCHANGED << outsideStore, navVars >>
    /\ workflowStarted
    /\ selectedBookmarkIds' =
          IF id \in selectedBookmarkIds
          THEN selectedBookmarkIds \ {id}
          ELSE selectedBookmarkIds \cup {id}
    /\ UNCHANGED aiRecommendations
    /\ SelectionFrame

\* selectAll that adds the ids to the selection instead of replacing it
selectAllAdding(ids) ==
    /\ UNCHANGED << outsideStore, navVars >>
    /\ workflowStarted
    /\ selectedBookmarkIds' = selectedBookmarkIds \cup Range(ids)
    /\ UNCHANGED aiRecommendations
    /\ SelectionFrame

\* selectAll(ids): new Set(ids) of an array of ids
selectAll(ids) ==
    /\ UNCHANGED << outsideStore, navVars >>
    /\ workflowStarted
    /\ selectedBookmarkIds' = Range(ids)
    /\ UNCHANGED aiRecommendations
    /\ SelectionFrame

deselectAll ==
    /\ UNCHANGED << outsideStore, navVars >>
    /\ workflowStarted
    /\ selectedBookmarkIds' = {}
    /\ UNCHANGED aiRecommendations
    /\ SelectionFrame

selectByRecommendation(type) ==
    /\ UNCHANGED << outsideStore, navVars >>
    /\ workflowStarted
    /\ LET ids == Filter(aiRecommendations,
                         LAMBDA r : r.recommendation = type /\ ~r.rejected)
       IN  selectedBookmarkIds' = { ids[i].bookmarkId : i \in 1..Len(ids) }
    /\ UNCHANGED aiRecommendations
    /\ SelectionFrame

(***************************************************************************)
(* AI recommendations and folder suggestions                               *)
(***************************************************************************)
setAIRecommendations(recommendations) ==
    /\ UNCHANGED << outsideStore, navVars >>
    /\ workflowStarted
    /\ aiRecommendations' = recommendations
    /\ UNCHANGED selectedBookmarkIds
    /\ SelectionFrame

acceptRecommendation(bookmarkId) ==
    /\ UNCHANGED << outsideStore, navVars >>
    /\ workflowStarted
    /\ aiRecommendations' =
          [i \in 1..Len(aiRecommendations) |->
              IF aiRecommendations[i].bookmarkId = bookmarkId
              THEN [aiRecommendations[i] EXCEPT !.accepted = TRUE, !.rejected = FALSE]
              ELSE aiRecommendations[i]]
    /\ LET found == { i \in 1..Len(aiRecommendations) :
                        aiRecommendations[i].bookmarkId = bookmarkId }
           rec == aiRecommendations[CHOOSE i \in found : \A j \in found : i <= j]
       IN  selectedBookmarkIds' =
              IF found # {} /\ rec.recommendation = "delete"
              THEN selectedBookmarkIds \cup {bookmarkId}
              ELSE selectedBookmarkIds
    /\ SelectionFrame

rejectRecommendation(bookmarkId) ==
    /\ UNCHANGED << outsideStore, navVars >>
    /\ workflowStarted
    /\ aiRecommendations' =
          [i \in 1..Len(aiRecommendations) |->
              IF aiRecommendations[i].bookmarkId = bookmarkId
              THEN [aiRecommendations[i] EXCEPT !.accepted = FALSE, !.rejected = TRUE]
              ELSE aiRecommendations[i]]
    /\ selectedBookmarkIds' = selectedBookmarkIds \ {bookmarkId}
    /\ SelectionFrame

acceptAllRecommendations(type) ==
    /\ UNCHANGED << outsideStore, navVars >>
    /\ workflowStarted
    /\ aiRecommendations' =
          [i \in 1..Len(aiRecommendations) |->
              IF aiRecommendations[i].recommendation = type
                 /\ ~aiRecommendations[i].rejected
              THEN [aiRecommendations[i] EXCEPT !.accepted = TRUE]
              ELSE aiRecommendations[i]]
    /\ selectedBookmarkIds' =
          IF type = "delete"
          THEN selectedBookmarkIds \cup
                 { aiRecommendations[i].bookmarkId :
                     i \in { j \in 1..Len(aiRecommendations) :
                               /\ aiRecommendations[j].recommendation = "delete"
                               /\ ~aiRecommendations[j].rejected } }
          ELSE selectedBookmarkIds
    /\ SelectionFrame

setSuggestedFolders(folders) ==
    /\ UNCHANGED << outsideStore, navVars >>
    /\ workflowStarted
    /\ suggestedFolders' = folders
    /\ trail' = NoTrail
    /\ UNCHANGED << workflowStarted, hasUnsavedChanges, workingBookmarks,
                    selectedBookmarkIds, deletedBookmarkIds, aiRecommendations,
                    pendingMoves, createdFolders, operationHistory, undoInFlight,
                    returned, opsLeft >>

(***************************************************************************)
(* Deletion                                                                *)
(***************************************************************************)
deleteSelected ==
    /\ UNCHANGED << outsideStore, navVars >>
    /\ workflowStarted
    /\ opsLeft > 0
    /\ IF selectedBookmarkIds = {}
       THEN UNCHANGED storeVars
       ELSE LET idsToDelete == selectedBookmarkIds
                bookmarksToDelete ==
                    Filter(workingBookmarks, LAMBDA b : b.id \in idsToDelete)
                operation == createDeleteOperation(bookmarksToDelete)
            IN  /\ operationHistory' = recordOperation(operationHistory, operation)
                /\ deletedBookmarkIds' = deletedBookmarkIds \cup idsToDelete
                /\ selectedBookmarkIds' = {}
                /\ hasUnsavedChanges' = TRUE
                /\ opsLeft' = opsLeft - 1
                /\ UNCHANGED << workflowStarted, workingBookmarks, aiRecommendations,
                                suggestedFolders, pendingMoves, createdFolders,
                                undoInFlight, returned >>
                /\ trail' = TrailOf("delete", Restorable, Restorable')

(***************************************************************************)
(* Folder operations                                                       *)
(***************************************************************************)
\* moveBookmarksToFolder as a function of the fields it reads
moveResult(bookmarkIds, targetPath, working, pending, history) ==
    LET moves == [i \in 1..Len(bookmarkIds) |->
                    [bookmarkId |-> bookmarkIds[i],
                     fromPath |-> PathOfId(working, bookmarkIds[i]),
                     toPath |-> targetPath]]
        operation == createMoveOperation(working, moves)
    IN  [workingBookmarks |->
            [i \in 1..Len(working) |->
                IF working[i].id \in Range(bookmarkIds)
                THEN [working[i] EXCEPT !.path = targetPath]
                ELSE working[i]],
         pendingMoves |-> pending \o moves,
         operationHistory |-> recordOperation(history, operation)]

moveBookmarksToFolder(bookmarkIds, targetPath) ==
    /\ UNCHANGED << outsideStore, navVars >>
    /\ workflowStarted
    /\ opsLeft > 0
    /\ LET r == moveResult(bookmarkIds, targetPath, workingBookmarks,
                           pendingMoves, operationHistory)
       IN  /\ workingBookmarks' = r.workingBookmarks
           /\ pendingMoves' = r.pendingMoves
           /\ operationHistory' = r.operationHistory
    /\ selectedBookmarkIds' = {}
    /\ hasUnsavedChanges' = TRUE
    /\ opsLeft' = opsLeft - 1
    /\ UNCHANGED << workflowStarted, deletedBookmarkIds, aiRecommendations,
                    suggestedFolders, createdFolders, undoInFlight, returned >>
    /\ trail' = TrailOf("move", Restorable, Restorable')

\* createFolder as a function of the fields it reads; ok is the value returned
createFolderResult(path, working, created, history) ==
    LET rejected == [ok |-> FALSE, createdFolders |-> created,
                     operationHistory |-> history]
    IN  IF Len(path) = 0 THEN rejected
        ELSE IF folderNameExistsAtLevel(working, SliceButLast(path), path[Len(path)])
        THEN rejected
        ELSE IF \E k \in 1..Len(created) :
                   /\ Len(created[k]) = Len(path)
                   /\ \A i \in 1..Len(path) : created[k][i] = path[i]
        THEN rejected
        ELSE [ok |-> TRUE, createdFolders |-> Append(created, path),
              operationHistory |->
                  recordOperation(history, createFolderOperation(path))]

createFolder(path) ==
    /\ UNCHANGED << outsideStore, navVars >>
    /\ workflowStarted
    /\ opsLeft > 0
    /\ LET r == createFolderResult(path, workingBookmarks, createdFolders,
                                   operationHistory)
       IN  /\ returned' = r.ok
           /\ createdFolders' = r.createdFolders
           /\ operationHistory' = r.operationHistory
           /\ hasUnsavedChanges' = (IF r.ok THEN TRUE ELSE hasUnsavedChanges)
           /\ opsLeft' = (IF r.ok THEN opsLeft - 1 ELSE opsLeft)
           /\ UNCHANGED << workflowStarted, workingBookmarks, selectedBookmarkIds,
                           deletedBookmarkIds, aiRecommendations, suggestedFolders,
                           pendingMoves, undoInFlight >>
           /\ trail' = (IF r.ok
                        THEN TrailOf("create_folder", Restorable, Restorable')
                        ELSE NoTrail)

\* createFolder(suggestion.path), its result dropped, then the move of every
\* suggested id when there is one
acceptFolderSuggestion(suggestion) ==
    /\ UNCHANGED << outsideStore, navVars >>
    /\ workflowStarted
    /\ opsLeft > 0
    /\ LET c == createFolderResult(suggestion.path, workingBookmarks,
                                   createdFolders, operationHistory)
           ids == suggestion.suggestedBookmarkIds
           m == moveResult(ids, suggestion.path, workingBookmarks, pendingMoves,
                           c.operationHistory)
           afterCreate == [Restorable EXCEPT !.created = c.createdFolders]
       IN  /\ createdFolders' = c.createdFolders
           /\ opsLeft' = opsLeft - 1
           /\ UNCHANGED << workflowStarted, deletedBookmarkIds, aiRecommendations,
                           suggestedFolders, undoInFlight, returned >>
           /\ IF Len(ids) > 0
              THEN /\ workingBookmarks' = m.workingBookmarks
                   /\ pendingMoves' = m.pendingMoves
                   /\ operationHistory' = m.operationHistory
                   /\ selectedBookmarkIds' = {}
                   /\ hasUnsavedChanges' = TRUE
                   /\ trail' = TrailOf("move", afterCreate, Restorable')
              ELSE /\ operationHistory' = c.operationHistory
                   /\ hasUnsavedChanges' = (IF c.ok THEN TRUE ELSE hasUnsavedChanges)
                   /\ UNCHANGED << workingBookmarks, pendingMoves, selectedBookmarkIds >>
                   /\ trail' = (IF c.ok
                                THEN TrailOf("create_folder", Restorable, Restorable')
                                ELSE NoTrail)

(***************************************************************************)
(* Undo                                                                    *)
(***************************************************************************)
\* the set(...) calls undo makes once executeUndo has answered, as a function
\* of the popped operation, the result and the state undo read at its start
undoApplied(operation, result, read) ==
    IF ~result.success THEN read
    ELSE IF operation.type = "delete" /\ "restoredBookmarks" \in result.defined
    THEN [read EXCEPT !.deleted = read.deleted \ IdsOf(result.restoredBookmarks)]
    ELSE IF operation.type = "move" /\ "revertedMoves" \in result.defined
    THEN LET reverted == result.revertedMoves
             revertedIds == { reverted[i].bookmarkId : i \in 1..Len(reverted) }
             RevertPath(b) ==
                 reverted[CHOOSE i \in 1..Len(reverted) :
                            /\ reverted[i].bookmarkId = b.id
                            /\ \A j \in 1..(i - 1) : reverted[j].bookmarkId # b.id].path
         IN  [read EXCEPT
                !.working = [i \in 1..Len(read.working) |->
                               IF read.working[i].id \in revertedIds
                               THEN [read.working[i] EXCEPT
                                       !.path = RevertPath(read.working[i])]
                               ELSE read.working[i]],
                !.pending = Filter(read.pending,
                                   LAMBDA m : m.bookmarkId \notin revertedIds)]
    ELSE IF operation.type = "create_folder" /\ "removedFolder" \in result.defined
    THEN [read EXCEPT
            !.created = Filter(read.created,
                               LAMBDA f : ~(/\ Len(f) = Len(result.removedFolder)
                                            /\ \A i \in 1..Len(f) :
                                                  f[i] = result.removedFolder[i]))]
    ELSE read

\* undo up to `await executeUndo(...)`.  Undoing a create_folder touches no
\* store and resumes before any other handler runs, so it is applied here.
undo ==
    /\ UNCHANGED << outsideStore, navVars >>
    /\ workflowStarted
    /\ IF ~canUndo(operationHistory)
       THEN UNCHANGED storeVars
       ELSE LET operation == peekLast(operationHistory)
                straightAfter == trail.phase = "applied"
            IN  /\ operationHistory' = popLast(operationHistory)
                /\ IF operation.type = "create_folder"
                   THEN LET result == executeUndo(operation, workingBookmarks, TRUE)
                            after == undoApplied(operation, result, Restorable)
                        IN  /\ createdFolders' = after.created
                            /\ trail' = (IF straightAfter
                                         THEN [trail EXCEPT !.phase = "undone"]
                                         ELSE NoTrail)
                            /\ UNCHANGED undoInFlight
                   ELSE /\ Len(undoInFlight) < MaxUndoInFlight
                        /\ undoInFlight' =
                              Append(undoInFlight,
                                     [operation |-> operation, read |-> Restorable])
                        /\ trail' = (IF straightAfter
                                     THEN [trail EXCEPT !.phase = "undoing"]
                                     ELSE NoTrail)
                        /\ UNCHANGED createdFolders
                /\ UNCHANGED << workflowStarted, hasUnsavedChanges, workingBookmarks,
                                selectedBookmarkIds, deletedBookmarkIds,
                                aiRecommendations, suggestedFolders, pendingMoves,
                                returned, opsLeft >>

\* an undo of a delete or a move resumes: the store write succeeded or threw
undoResume(k, storeOk) ==
    /\ UNCHANGED << outsideStore, navVars >>
    /\ k \in 1..Len(undoInFlight)
    /\ LET call == undoInFlight[k]
           result == executeUndo(call.operation, call.read.working, storeOk)
           after == undoApplied(call.operation, result, call.read)
       IN  /\ IF result.success /\ call.operation.type = "delete"
              THEN /\ deletedBookmarkIds' = after.deleted
                   /\ UNCHANGED << workingBookmarks, pendingMoves >>
              ELSE IF result.success /\ call.operation.type = "move"
              THEN /\ workingBookmarks' = after.working
                   /\ pendingMoves' = after.pending
                   /\ UNCHANGED deletedBookmarkIds
              ELSE UNCHANGED << deletedBookmarkIds, workingBookmarks, pendingMoves >>
           /\ trail' = (IF trail.phase = "undoing" /\ k = Len(undoInFlight) /\ storeOk
                        THEN [trail EXCEPT !.phase = "undone"]
                        ELSE NoTrail)
    /\ undoInFlight' = [i \in 1..(Len(undoInFlight) - 1) |->
                           IF i < k THEN undoInFlight[i] ELSE undoInFlight[i + 1]]
    /\ UNCHANGED << workflowStarted, hasUnsavedChanges, selectedBookmarkIds,
                    aiRecommendations, suggestedFolders, createdFolders,
                    operationHistory, returned, opsLeft >>

(***************************************************************************)
(* The cleanup store                                                       *)
(***************************************************************************)
\* Organizing: selection from the bookmark list, deletion, moves, folder
\* creation, folder suggestions and undo
Next ==
    \/ initWorkflow
    \/ \E id \in ActiveIds : toggleBookmarkSelection(id)
    \/ selectAll(ActiveIdList)
    \/ deselectAll
    \/ \E folders \in SuggestionLists : setSuggestedFolders(folders)
    \/ deleteSelected
    \/ \E ids \in IdLists, path \in TargetPaths : moveBookmarksToFolder(ids, path)
    \/ \E path \in FolderPaths : createFolder(path)
    \/ \E i \in 1..Len(suggestedFolders) : acceptFolderSuggestion(suggestedFolders[i])
    \/ undo
    \/ \E k \in 1..Len(undoInFlight), storeOk \in BOOLEAN : undoResume(k, storeOk)

\* Reviewing: selection by hand and by AI recommendation, deletion and undo
NextReview ==
    \/ initWorkflow
    \/ \E id \in ActiveIds : toggleBookmarkSelection(id)
    \/ selectAll(ActiveIdList)
    \/ deselectAll
    \/ \E type \in RecommendationTypes : selectByRecommendation(type)
    \/ \E recommendations \in RecommendationLists : setAIRecommendations(recommendations)
    \/ \E id \in Ids : acceptRecommendation(id)
    \/ \E id \in Ids : rejectRecommendation(id)
    \/ \E type \in RecommendationTypes : acceptAllRecommendations(type)
    \/ deleteSelected
    \/ undo
    \/ \E k \in 1..Len(undoInFlight), storeOk \in BOOLEAN : undoResume(k, storeOk)

\* Categorizing without folder creation: selection, deletion, moves and undo
NextMove ==
    \/ initWorkflow
    \/ \E id \in ActiveIds : toggleBookmarkSelection(id)
    \/ selectAll(ActiveIdList)
    \/ deselectAll
    \/ deleteSelected
    \/ \E ids \in IdLists, path \in MoveTargets : moveBookmarksToFolder(ids, path)
    \/ undo
    \/ \E k \in 1..Len(undoInFlight), storeOk \in BOOLEAN : undoResume(k, storeOk)

\* Folders: folder creation, folder suggestions and undo
NextFolders ==
    \/ initWorkflow
    \/ \E folders \in SuggestionLists : setSuggestedFolders(folders)
    \/ \E path \in FolderPathsAnyCase : createFolder(path)
    \/ \E i \in 1..Len(suggestedFolders) : acceptFolderSuggestion(suggestedFolders[i])
    \/ undo
    \/ \E k \in 1..Len(undoInFlight), storeOk \in BOOLEAN : undoResume(k, storeOk)

Spec == Init /\ [][Next]_vars

SpecFolders == Init /\ [][NextFolders]_vars

SpecMove == Init /\ [][NextMove]_vars

SpecReview == Init /\ [][NextReview]_vars

(***************************************************************************)
(* Filters and session persistence                                         *)
(***************************************************************************)
\* partial filter objects handed to setFilters
FilterPatches ==
    { [f \in {"domain"} |-> "example.com"],
      [f \in {"searchQuery"} |-> "news"],
      [f \in {"domain"} |-> "unset"] }

\* id arrays handed to selectAll by callers of the store
SelectAllLists ==
    { <<>>, <<"a", "b">>, <<"b", "b", "a">>, <<"x", "a", "x">> }

\* setFilters: { ...state.filters, ...filters }
setFilters(patch) ==
    /\ workflowStarted
    /\ filters' = [f \in DOMAIN filters |->
                     IF f \in DOMAIN patch THEN patch[f] ELSE filters[f]]
    /\ UNCHANGED << storeVars, currentStage, sessionId, saveInFlight, loadReturned,
                    uuids, outsideStore >>

clearFilters ==
    /\ workflowStarted
    /\ filters' = NoFilters
    /\ UNCHANGED << storeVars, currentStage, sessionId, saveInFlight, loadReturned,
                    uuids, outsideStore >>

\* Array.from(set): the members of a set as an array
RECURSIVE ArrayFrom(_)
ArrayFrom(set) ==
    IF set = {}
    THEN <<>>
    ELSE LET e == CHOOSE x \in set : TRUE
         IN  <<e>> \o ArrayFrom(set \ {e})

\* JSON.stringify / JSON.parse of a CleanupSession
JSONstringify(value) == [json |-> value]

JSONparse(text) == text.json

\* the session in the words of the WorkflowSession entity, with the active
\* record list
SessionView ==
    [id |-> sessionId, stage |-> currentStage, selected |-> selectedBookmarkIds,
     deleted |-> deletedBookmarkIds, pending |-> pendingMoves,
     created |-> createdFolders, history |-> operationHistory,
     recommendations |-> aiRecommendations, folders |-> suggestedFolders,
     filters |-> filters, active |-> getActiveBookmarks]

\* saveSession up to `await saveCleanupSession(...)`
saveSession ==
    /\ workflowStarted
    /\ IF sessionId = 0
       THEN UNCHANGED saveInFlight
       ELSE /\ Len(cleanupSessions) + Len(saveInFlight) < MaxSaves
            /\ LET session ==
                     [id |-> sessionId,
                      currentStage |-> currentStage,
                      selectedBookmarkIds |-> ArrayFrom(selectedBookmarkIds),
                      deletedBookmarkIds |-> ArrayFrom(deletedBookmarkIds),
                      pendingMoves |-> pendingMoves,
                      createdFolders |-> createdFolders,
                      operationHistory |-> operationHistory,
                      aiRecommendations |-> aiRecommendations,
                      suggestedFolders |-> suggestedFolders]
               IN  saveInFlight' =
                      Append(saveInFlight,
                             [record |-> [id |-> sessionId,
                                          sessionData |-> JSONstringify(session)],
                              view |-> SessionView])
    /\ UNCHANGED << storeVars, currentStage, sessionId, filters, loadReturned, uuids,
                    outsideStore >>

\* saveSession resumes: db.cleanupSessions.put stored the record or threw
saveSessionResume(storeOk) ==
    /\ Len(saveInFlight) > 0
    /\ LET call == saveInFlight[1]
       IN  IF storeOk
           THEN /\ cleanupSessions' =
                      Append(Filter(cleanupSessions, LAMBDA r : r.id # call.record.id),
                             call.record)
                /\ savedFrom' = [savedFrom EXCEPT ![call.record.id] = call.view]
                /\ hasUnsavedChanges' = FALSE
           ELSE UNCHANGED << cleanupSessions, savedFrom, hasUnsavedChanges >>
    /\ saveInFlight' = Tail(saveInFlight)
    /\ UNCHANGED << workflowStarted, workingBookmarks, selectedBookmarkIds,
                    deletedBookmarkIds, aiRecommendations, suggestedFolders,
                    pendingMoves, createdFolders, operationHistory, undoInFlight,
                    returned, opsLeft, trail, currentStage, sessionId, filters,
                    loadReturned, uuids, dropped, cacheVars, llmVars,
                    analysisVars, viewVars, flagVars, suggestVars >>

\* getLatestCleanupSession: orderBy('updatedAt').reverse().limit(1)
getLatestCleanupSession(table) == table[Len(table)]

\* how the read of loadSession may end: the table answers (with its latest
\* record or with none), the read rejects, or the record's sessionData does
\* not decode (JSON.parse or history.restore throws)
LoadReads == {"record", "rejected", "undecodable"}

\* loadSession up to `await getLatestCleanupSession()`
loadSession ==
    /\ ~loadInFlight
    /\ isLoading' = TRUE
    /\ loadInFlight' = TRUE
    /\ UNCHANGED << storeVars, navVars, dropped, cacheVars, persistVars, llmVars,
                    analysisVars, viewVars, loadRead, isAnalyzing, analysisError,
                    aiRequests, suggestVars >>

\* loadSession resumes (a copy that has no `finally`: the flag is cleared
\* only when the session was loaded)
loadSessionResumeNoFinally(read) ==
    /\ loadInFlight
    /\ read = "undecodable" => Len(cleanupSessions) > 0
    /\ IF read # "record" \/ Len(cleanupSessions) = 0
       THEN /\ loadReturned' = FALSE
            /\ UNCHANGED << storeVars, currentStage, sessionId, isLoading >>
       ELSE LET session == JSONparse(getLatestCleanupSession(cleanupSessions).sessionData)
            IN  /\ sessionId' = session.id
                /\ currentStage' = session.currentStage
                /\ selectedBookmarkIds' = Range(session.selectedBookmarkIds)
                /\ deletedBookmarkIds' = Range(session.deletedBookmarkIds)
                /\ pendingMoves' = session.pendingMoves
                /\ createdFolders' = session.createdFolders
                /\ operationHistory' = restore(session.operationHistory)
                /\ aiRecommendations' = session.aiRecommendations
                /\ suggestedFolders' = session.suggestedFolders
                /\ workflowStarted' = TRUE
                /\ hasUnsavedChanges' = FALSE
                /\ loadReturned' = TRUE
                /\ trail' = NoTrail
                /\ isLoading' = FALSE
                /\ UNCHANGED << workingBookmarks, undoInFlight, returned, opsLeft >>
    /\ loadInFlight' = FALSE
    /\ loadRead' = read
    /\ UNCHANGED << filters, saveInFlight, uuids, dropped, cacheVars, persistVars,
                    llmVars, analysisVars, viewVars, isAnalyzing, analysisError,
                    aiRequests, suggestVars >>

\* loadSession resumes: no record, a rejected read or data that does not
\* decode return false; a record that decodes is set into the store and
\* true is returned; `finally` clears isLoading either way
loadSessionResume(read) ==
    /\ loadInFlight
    /\ read = "undecodable" => Len(cleanupSessions) > 0
    /\ IF read # "record" \/ Len(cleanupSessions) = 0
       THEN /\ loadReturned' = FALSE
            /\ UNCHANGED << storeVars, currentStage, sessionId >>
       ELSE LET session == JSONparse(getLatestCleanupSession(cleanupSessions).sessionData)
            IN  /\ sessionId' = session.id
                /\ currentStage' = session.currentStage
                /\ selectedBookmarkIds' = Range(session.selectedBookmarkIds)
                /\ deletedBookmarkIds' = Range(session.deletedBookmarkIds)
                /\ pendingMoves' = session.pendingMoves
                /\ createdFolders' = session.createdFolders
                /\ operationHistory' = restore(session.operationHistory)
                /\ aiRecommendations' = session.aiRecommendations
                /\ suggestedFolders' = session.suggestedFolders
                /\ workflowStarted' = TRUE
                /\ hasUnsavedChanges' = FALSE
                /\ loadReturned' = TRUE
                /\ trail' = NoTrail
                /\ UNCHANGED << workingBookmarks, undoInFlight, returned, opsLeft >>
    /\ isLoading' = FALSE
    /\ loadInFlight' = FALSE
    /\ loadRead' = read
    /\ UNCHANGED << filters, saveInFlight, uuids, dropped, cacheVars, persistVars,
                    llmVars, analysisVars, viewVars, isAnalyzing, analysisError,
                    aiRequests, suggestVars >>

\* the page is loaded anew: the store is created again, the database stays
reload ==
    /\ undoInFlight = <<>>
    /\ saveInFlight = <<>>
    /\ ~loadInFlight
    /\ aiRequests = <<>>
    /\ isLoading' = FALSE
    /\ isAnalyzing' = FALSE
    /\ analysisError' = "null"
    /\ workflowStarted' = FALSE
    /\ hasUnsavedChanges' = FALSE
    /\ workingBookmarks' = <<>>
    /\ selectedBookmarkIds' = {}
    /\ deletedBookmarkIds' = {}
    /\ aiRecommendations' = <<>>
    /\ suggestedFolders' = <<>>
    /\ pendingMoves' = <<>>
    /\ createdFolders' = <<>>
    /\ operationHistory' = <<>>
    /\ returned' = FALSE
    /\ trail' = NoTrail
    /\ currentStage' = "review"
    /\ sessionId' = 0
    /\ filters' = NoFilters
    /\ loadReturned' = FALSE
    /\ UNCHANGED << undoInFlight, saveInFlight, opsLeft, uuids, dropped, cacheVars,
                    persistVars, llmVars, analysisVars, viewVars, loadInFlight,
                    loadRead, aiRequests, suggestVars >>

\* Navigating: stages, selection by callers of the store, filters and reset
NextNavigation ==
    \/ initWorkflow
    \/ resetWorkflow
    \/ \E stage \in Range(STAGE_ORDER) : setStage(stage)
    \/ nextStage
    \/ prevStage
    \/ \E id \in Ids : toggleBookmarkSelection(id)
    \/ \E ids \in SelectAllLists : selectAll(ids)
    \/ deselectAll
    \/ \E patch \in FilterPatches : setFilters(patch)
    \/ clearFilters

\* A session from its start to its reload: stage steps, a selection, a
\* filter, a delete, a move, saving and loading
NextSession ==
    \/ initWorkflow
    \/ nextStage
    \/ selectAll(<<"b", "a">>)
    \/ setFilters([f \in {"domain"} |-> "example.com"])
    \/ deleteSelected
    \/ moveBookmarksToFolder(<<"a">>, <<"Dev", "Ops">>)
    \/ saveSession
    \/ \E storeOk \in BOOLEAN : saveSessionResume(storeOk)
    \/ loadSession
    \/ loadSessionResume("record")
    \/ reload

\* Saving while working: a delete, a move, undo and saveSession
NextSaving ==
    \/ initWorkflow
    \/ selectAll(<<"b", "a">>)
    \/ deleteSelected
    \/ moveBookmarksToFolder(<<"a">>, <<"Dev", "Ops">>)
    \/ undo
    \/ \E k \in 1..Len(undoInFlight), storeOk \in BOOLEAN : undoResume(k, storeOk)
    \/ saveSession
    \/ \E storeOk \in BOOLEAN : saveSessionResume(storeOk)

\* Loading: a session is worked on, saved and loaded, the read ending in
\* every way
NextLoading ==
    \/ initWorkflow
    \/ nextStage
    \/ selectAll(<<"b", "a">>)
    \/ deleteSelected
    \/ saveSession
    \/ \E storeOk \in BOOLEAN : saveSessionResume(storeOk)
    \/ loadSession
    \/ \E read \in LoadReads : loadSessionResume(read)

(***************************************************************************)
(* CleanupWorkflow.tsx: the AI request handlers                            *)
(***************************************************************************)
\* how a request may end: getAIConfig answers null, the analysis returns
\* its result, or it throws
RequestOutcomes == {"no config", "result", "error"}

\* what a request handler leaves alone up to its await
RequestFrame ==
    UNCHANGED << storeVars, navVars, dropped, cacheVars, persistVars, llmVars,
                 analysisVars, viewVars, isLoading, loadInFlight, loadRead,
                 suggestVars >>

\* a request handler up to `await getAIConfig()`
requestStart(kind) ==
    /\ workflowStarted
    /\ Len(aiRequests) < MaxRequests
    /\ IF Len(getActiveBookmarks) = 0
       THEN UNCHANGED << isAnalyzing, analysisError, aiRequests >>
       ELSE /\ isAnalyzing' = TRUE
            /\ analysisError' = "null"
            /\ aiRequests' = Append(aiRequests, [kind |-> kind, session |-> sessionId])
    /\ RequestFrame

handleRequestAIAnalysis == requestStart("analysis")

handleRequestAICategorization == requestStart("categorization")

\* what the resumed part of a request handler leaves alone
ResumeFrame ==
    UNCHANGED << workflowStarted, hasUnsavedChanges, workingBookmarks,
                 selectedBookmarkIds, deletedBookmarkIds, pendingMoves,
                 createdFolders, operationHistory, undoInFlight, returned, opsLeft,
                 navVars, dropped, cacheVars, persistVars, llmVars, analysisVars,
                 viewVars, isLoading, loadInFlight, loadRead, suggestVars >>

\* the request in flight at position k leaves the list
Settled(k) ==
    [i \in 1..(Len(aiRequests) - 1) |->
        IF i < k THEN aiRequests[i] ELSE aiRequests[i + 1]]

\* handleRequestAIAnalysis resumes: setAnalysisError when no config is stored
\* or the analysis threw, setAIRecommendations with its result otherwise,
\* and setIsAnalyzing(false) in `finally`
handleRequestAIAnalysisResume(k, outcome, recommendations) ==
    /\ k \in 1..Len(aiRequests)
    /\ aiRequests[k].kind = "analysis"
    /\ IF outcome = "result"
       THEN /\ aiRecommendations' = recommendations
            /\ trail' = NoTrail
            /\ UNCHANGED analysisError
       ELSE /\ analysisError' = outcome
            /\ UNCHANGED << aiRecommendations, trail >>
    /\ isAnalyzing' = FALSE
    /\ aiRequests' = Settled(k)
    /\ UNCHANGED suggestedFolders
    /\ ResumeFrame

\* handleRequestAICategorization resumes likewise, with setSuggestedFolders
handleRequestAICategorizationResume(k, outcome, suggestions) ==
    /\ k \in 1..Len(aiRequests)
    /\ aiRequests[k].kind = "categorization"
    /\ IF outcome = "result"
       THEN /\ suggestedFolders' = suggestions
            /\ trail' = NoTrail
            /\ UNCHANGED analysisError
       ELSE /\ analysisError' = outcome
            /\ UNCHANGED << suggestedFolders, trail >>
    /\ isAnalyzing' = FALSE
    /\ aiRequests' = Settled(k)
    /\ UNCHANGED aiRecommendations
    /\ ResumeFrame

\* AI requests across sessions; the two buttons are disabled while
\* isAnalyzing is set
NextRequests ==
    \/ initWorkflow
    \/ resetWorkflow
    \/ (~isAnalyzing /\ handleRequestAIAnalysis)
    \/ (~isAnalyzing /\ handleRequestAICategorization)
    \/ \E k \in 1..Len(aiRequests), outcome \in RequestOutcomes,
          recommendations \in RecommendationLists :
          handleRequestAIAnalysisResume(k, outcome, recommendations)
    \/ \E k \in 1..Len(aiRequests), outcome \in RequestOutcomes,
          suggestions \in SuggestionLists :
          handleRequestAICategorizationResume(k, outcome, suggestions)

SpecNavigation == Init /\ [][NextNavigation]_vars

SpecRequests == Init /\ [][NextRequests]_vars

SpecLoading == Init /\ [][NextLoading]_vars

SpecSaving == Init /\ [][NextSaving]_vars

SpecSession == Init /\ [][NextSession]_vars

(***************************************************************************)
(* The OperationHistory class on its own                                   *)
(***************************************************************************)
\* the operations recorded in SpecHistory
HistoryOperations ==
    { createFolderOperation(<<"Ops">>), createFolderOperation(<<"dev">>) }

\* lists handed to restore: n entries alternating between the two operations
SavedHistory(n, first) ==
    [i \in 1..n |->
        IF (i % 2 = 1) = first
        THEN createFolderOperation(<<"Ops">>)
        ELSE createFolderOperation(<<"dev">>)]

SavedHistories == { SavedHistory(n, first) : n \in 0..MaxSavedLen, first \in BOOLEAN }

HistoryFrame ==
    UNCHANGED << workflowStarted, hasUnsavedChanges, workingBookmarks,
                 selectedBookmarkIds, deletedBookmarkIds, aiRecommendations,
                 suggestedFolders, pendingMoves, createdFolders, undoInFlight,
                 returned, opsLeft, trail, navVars, cacheVars, persistVars,
                 llmVars, analysisVars, viewVars, flagVars, suggestVars >>

historyRecordOperation(operation) ==
    /\ dropped < MaxDropped
    /\ operationHistory' = recordOperation(operationHistory, operation)
    /\ dropped' = dropped + (Len(operationHistory) + 1 - Len(operationHistory'))
    /\ HistoryFrame

historyPopLast ==
    /\ operationHistory' = popLast(operationHistory)
    /\ UNCHANGED dropped
    /\ HistoryFrame

historyRestore(operations) ==
    /\ operationHistory' = restore(operations)
    /\ UNCHANGED dropped
    /\ HistoryFrame

NextHistory ==
    \/ \E operation \in HistoryOperations : historyRecordOperation(operation)
    \/ historyPopLast
    \/ \E operations \in SavedHistories : historyRestore(operations)

SpecHistory == Init /\ [][NextHistory]_vars

(***************************************************************************)
(* cacheService.ts over db.aiCache                                         *)
(***************************************************************************)
BookmarkHashes == {"hA", "hB"}

CacheValues == {"v1", "v2"}

\* ttlMs handed to getOrCompute, in ticks of the clock
TtlChoices == {1, 2}

\* getAICache that still answers with a row at the instant it expires
getAICacheAtExpiry(cache, time, id) ==
    IF cache[id] # NoEntry /\ cache[id].expiresAt >= time
    THEN cache[id]
    ELSE NoEntry

\* db.ts getAICache: the row when it has not expired, NoEntry for undefined
getAICache(cache, time, id) ==
    IF cache[id] # NoEntry /\ cache[id].expiresAt > time
    THEN cache[id]
    ELSE NoEntry

\* set that stores the ttl as the expiry instead of adding it to the clock
cacheSetTtlOnly(cache, time, key, value, bookmarkHash, ttlMs) ==
    [cache EXCEPT ![key] = [data |-> value, bookmarkHash |-> bookmarkHash,
                            expiresAt |-> ttlMs]]

\* cacheService.set / db.ts setAICache: put the row, expiring ttlMs from now
cacheSet(cache, time, key, value, bookmarkHash, ttlMs) ==
    [cache EXCEPT ![key] = [data |-> value, bookmarkHash |-> bookmarkHash,
                            expiresAt |-> time + ttlMs]]

\* getOrCompute lines 178-183: the cached row it answers with, NoEntry when
\* it goes on to compute
cacheLookup(cache, time, key, bookmarkHash, forceRefresh) ==
    IF ~forceRefresh
    THEN LET cached == getAICache(cache, time, key)
         IN  IF cached # NoEntry /\ cached.bookmarkHash = bookmarkHash
             THEN cached
             ELSE NoEntry
    ELSE NoEntry

CacheFrame ==
    UNCHANGED << storeVars, navVars, dropped, persistVars, llmVars, analysisVars,
                 viewVars, flagVars, suggestVars >>

\* getOrCompute up to its answer from the cache or up to `await compute()`
getOrComputeStart(caller, key, bookmarkHash, ttlMs, forceRefresh) ==
    /\ cacheCalls[caller].pc = "idle"
    /\ LET cached == cacheLookup(aiCache, now, key, bookmarkHash, forceRefresh)
       IN  IF cached # NoEntry
           THEN /\ cacheReturned' = [caller |-> caller, value |-> cached.data,
                                     fromCache |-> TRUE, computes |-> 0]
                /\ UNCHANGED cacheCalls
           ELSE /\ cacheCalls' =
                      [cacheCalls EXCEPT ![caller] =
                          [pc |-> "compute", key |-> key,
                           bookmarkHash |-> bookmarkHash, ttlMs |-> ttlMs,
                           value |-> "none", computes |-> 0]]
                /\ UNCHANGED cacheReturned
    /\ UNCHANGED << aiCache, now >>
    /\ CacheFrame

\* compute() answers
getOrComputeCompute(caller, value) ==
    /\ cacheCalls[caller].pc = "compute"
    /\ cacheCalls' = [cacheCalls EXCEPT ![caller].pc = "set",
                                        ![caller].value = value,
                                        ![caller].computes = @ + 1]
    /\ UNCHANGED << aiCache, now, cacheReturned >>
    /\ CacheFrame

\* `await set(...)` and the return of the computed value
getOrComputeStore(caller) ==
    /\ cacheCalls[caller].pc = "set"
    /\ LET call == cacheCalls[caller]
       IN  /\ aiCache' = cacheSet(aiCache, now, call.key, call.value,
                                  call.bookmarkHash, call.ttlMs)
           /\ cacheReturned' = [caller |-> caller, value |-> call.value,
                                fromCache |-> FALSE, computes |-> call.computes]
    /\ cacheCalls' = [cacheCalls EXCEPT ![caller] = IdleCall]
    /\ UNCHANGED now
    /\ CacheFrame

\* time passes
tick ==
    /\ now < MaxTime
    /\ now' = now + 1
    /\ UNCHANGED << aiCache, cacheCalls, cacheReturned >>
    /\ CacheFrame

NextCache ==
    \/ \E caller \in Callers, key \in CacheKeys, bookmarkHash \in BookmarkHashes,
          ttlMs \in TtlChoices, forceRefresh \in BOOLEAN :
          getOrComputeStart(caller, key, bookmarkHash, ttlMs, forceRefresh)
    \/ \E caller \in Callers, value \in CacheValues : getOrComputeCompute(caller, value)
    \/ \E caller \in Callers : getOrComputeStore(caller)
    \/ tick

SpecCache == Init /\ [][NextCache]_vars

(***************************************************************************)
(* The invocation pipeline: usageService.checkLimits, enforceRateLimit,    *)
(* callLLM and BaseLLMAdapter.withRetry around the remote request          *)
(***************************************************************************)
\* Math.pow(2, n) for the attempt numbers of the retry loops
RECURSIVE Pow2(_)
Pow2(n) == IF n = 0 THEN 1 ELSE 2 * Pow2(n - 1)

Answers ==
    { Answer(200, 0, TRUE), Answer(200, 0, FALSE), Answer(401, 0, TRUE),
      Answer(429, 0, TRUE), Answer(429, 2, TRUE), Answer(403, 0, TRUE),
      Answer(500, 0, TRUE), Answer(0, 0, TRUE) }

AIServiceError(code, retryable, retryAfterMs) ==
    [code |-> code, isAIServiceError |-> TRUE, retryable |-> retryable,
     retryAfterMs |-> retryAfterMs]

\* BaseLLMAdapter.handleHttpError
handleHttpError(status, retry_after) ==
    CASE status = 401 -> AIServiceError("INVALID_API_KEY", FALSE, 0)
      [] status = 429 ->
            AIServiceError("RATE_LIMITED", TRUE,
                           IF retry_after # 0 THEN retry_after * 1000
                           ELSE DefaultRetryAfterMs)
      [] status \in {402, 403} -> AIServiceError("QUOTA_EXCEEDED", FALSE, 0)
      [] status \in {500, 502, 503, 504} -> AIServiceError("PROVIDER_ERROR", TRUE, 0)
      [] OTHER -> AIServiceError("NETWORK_ERROR", status >= 500, 0)

\* the error the operation of OpenAIAdapter.chat throws on an answer, NoError
\* when it returns the response
requestError(answer) ==
    IF answer.status = 0
    THEN [code |-> "TypeError", isAIServiceError |-> FALSE, retryable |-> FALSE,
          retryAfterMs |-> 0]
    ELSE IF answer.status # 200
    THEN handleHttpError(answer.status, answer.retry_after)
    ELSE IF ~answer.wellFormed
    THEN AIServiceError("INVALID_RESPONSE", FALSE, 0)
    ELSE NoError

\* getTodayStats and getMonthStats
getTodayStats == aiUsage.today

getMonthStats ==
    [tokens |-> aiUsage.earlier.tokens + aiUsage.today.tokens,
     cost |-> aiUsage.earlier.cost + aiUsage.today.cost]

\* (a ceiling that blocks only once the usage is past it)
limitExceededStrictly(current, limit) == limit # 0 /\ current > limit

\* one ceiling of checkLimits: `if (limit) { percentage = current / limit;
\* if (percentage >= 1) exceeded = true }`
limitExceeded(current, limit) == limit # 0 /\ current >= limit

\* usageService.checkLimits().exceeded
checkLimits ==
    \/ limitExceeded(getTodayStats.tokens, usageLimits.dailyTokenLimit)
    \/ limitExceeded(getMonthStats.tokens, usageLimits.monthlyTokenLimit)
    \/ limitExceeded(getTodayStats.cost, usageLimits.dailyCostLimit)
    \/ limitExceeded(getMonthStats.cost, usageLimits.monthlyCostLimit)

\* usageService.setLimits
LimitChoices ==
    { [NoLimits EXCEPT !.dailyTokenLimit = 1],
      [NoLimits EXCEPT !.monthlyTokenLimit = 1],
      [NoLimits EXCEPT !.dailyCostLimit = 1],
      [NoLimits EXCEPT !.monthlyCostLimit = 1],
      [NoLimits EXCEPT !.dailyTokenLimit = 2, !.monthlyCostLimit = 1],
      NoLimits }

LLMFrame ==
    UNCHANGED << storeVars, navVars, dropped, cacheVars, persistVars, analysisVars,
                 viewVars, flagVars, suggestVars >>

setLimits(limits) ==
    /\ usageLimits' = limits
    /\ UNCHANGED << aiUsage, lastRequestTime, clockMs, llmCalls, lastDispatch,
                    callsStarted >>
    /\ LLMFrame

\* midnight passes: the records of today count for the month only
dayRollover ==
    /\ aiUsage.today # NoUsage
    /\ aiUsage' = [today |-> NoUsage, earlier |-> getMonthStats]
    /\ UNCHANGED << usageLimits, lastRequestTime, clockMs, llmCalls, lastDispatch,
                    callsStarted >>
    /\ LLMFrame

\* sleep(ms) of call `call`
sleep(call, pc, ms) ==
    [call EXCEPT !.pc = pc, !.wakeAt = clockMs + ms, !.sleeps = @ + 1, !.slept = ms]

\* fetch(...) of the operation adapter.chat hands to withRetry
sendRequest(call) == [call EXCEPT !.pc = "fetch", !.fetches = @ + 1]

\* one turn of callLLM's loop up to its first suspension: enforceRateLimit,
\* which sleeps when the module's last request is less than the interval
\* ago, then adapter.chat, whose withRetry sends the first request
startAttempt(c, call) ==
    LET elapsed == clockMs - lastRequestTime[call.service]
    IN  IF elapsed < MIN_REQUEST_INTERVAL_MS
        THEN /\ llmCalls' =
                  [llmCalls EXCEPT
                     ![c] = sleep(call, "rateLimit", MIN_REQUEST_INTERVAL_MS - elapsed)]
             /\ UNCHANGED << lastRequestTime, lastDispatch >>
        ELSE /\ lastRequestTime' = [lastRequestTime EXCEPT ![call.service] = clockMs]
             /\ llmCalls' =
                  [llmCalls EXCEPT
                     ![c] = sendRequest([call EXCEPT !.retry = 0, !.chats = @ + 1])]
             /\ lastDispatch' = clockMs

\* callLLM from its call to its first suspension after the limit check
callLLM(c, service) ==
    /\ llmCalls[c].pc = "idle"
    /\ callsStarted < MaxCalls
    /\ callsStarted' = callsStarted + 1
    /\ LET call == [IdleLLMCall EXCEPT !.service = service, !.blocked = checkLimits]
       IN  IF checkLimits
           THEN /\ llmCalls' =
                     [llmCalls EXCEPT
                        ![c] = [call EXCEPT
                                  !.pc = "done",
                                  !.thrown = AIServiceError("USAGE_LIMIT_REACHED",
                                                            FALSE, 0)]]
                /\ UNCHANGED << lastRequestTime, lastDispatch >>
           ELSE startAttempt(c, call)
    /\ UNCHANGED << usageLimits, aiUsage, clockMs >>
    /\ LLMFrame

\* enforceRateLimit resumes from its sleep: `lastRequestTime = Date.now()`,
\* then adapter.chat
enforceRateLimitResume(c) ==
    /\ llmCalls[c].pc = "rateLimit"
    /\ clockMs >= llmCalls[c].wakeAt
    /\ lastRequestTime' = [lastRequestTime EXCEPT ![llmCalls[c].service] = clockMs]
    /\ llmCalls' =
          [llmCalls EXCEPT
             ![c] = sendRequest([llmCalls[c] EXCEPT !.retry = 0, !.chats = @ + 1])]
    /\ lastDispatch' = clockMs
    /\ UNCHANGED << usageLimits, aiUsage, clockMs, callsStarted >>
    /\ LLMFrame

\* the catch block of callLLM on the error adapter.chat threw
callLLMCatch(call, error) ==
    LET caught == [call EXCEPT !.lastError = error]
    IN  IF error.isAIServiceError /\ ~error.retryable
        THEN [caught EXCEPT !.pc = "done", !.thrown = error]
        ELSE IF error.isAIServiceError /\ error.retryAfterMs # 0
        THEN sleep(caught, "retryDelay", error.retryAfterMs)
        ELSE sleep(caught, "retryDelay", RETRY_DELAY_MS * Pow2(call.attempt))

\* the catch block of withRetry on the error the request threw
withRetryCatch(call, error) ==
    IF error.isAIServiceError /\ ~error.retryable
    THEN callLLMCatch(call, error)
    ELSE IF call.retry < MAX_RETRIES - 1
    THEN sleep(call, "backoff", RETRY_DELAY_MS * Pow2(call.retry))
    ELSE callLLMCatch(call, error)

\* the remote request of a call settles: the response is recorded as usage
\* and returned, or the error goes through the two catch blocks
fetchSettles(c, answer) ==
    /\ llmCalls[c].pc = "fetch"
    /\ IF requestError(answer) = NoError
       THEN /\ aiUsage' =
                 [aiUsage EXCEPT !.today.tokens = @ + answer.totalTokens,
                                 !.today.cost = @ + answer.estimatedCost]
            /\ llmCalls' =
                 [llmCalls EXCEPT ![c].pc = "done", ![c].thrown = NoError,
                                  ![c].answer = answer]
       ELSE /\ llmCalls' =
                 [llmCalls EXCEPT
                    ![c] = withRetryCatch([llmCalls[c] EXCEPT !.answer = answer],
                                          requestError(answer))]
            /\ UNCHANGED aiUsage
    /\ UNCHANGED << usageLimits, lastRequestTime, clockMs, lastDispatch, callsStarted >>
    /\ LLMFrame

\* withRetry resumes from its backoff and sends the request again
withRetryResume(c) ==
    /\ llmCalls[c].pc = "backoff"
    /\ clockMs >= llmCalls[c].wakeAt
    /\ llmCalls' = [llmCalls EXCEPT ![c] = sendRequest([llmCalls[c] EXCEPT !.retry = @ + 1])]
    /\ lastDispatch' = clockMs
    /\ UNCHANGED << usageLimits, aiUsage, lastRequestTime, clockMs, callsStarted >>
    /\ LLMFrame

\* callLLM resumes from the sleep of its catch block: the next turn of the
\* loop, or `throw lastError` after the last one
callLLMResume(c) ==
    /\ llmCalls[c].pc = "retryDelay"
    /\ clockMs >= llmCalls[c].wakeAt
    /\ LET next == [llmCalls[c] EXCEPT !.attempt = @ + 1]
       IN  IF next.attempt < MAX_RETRIES
           THEN startAttempt(c, next)
           ELSE /\ llmCalls' =
                     [llmCalls EXCEPT
                        ![c] = [next EXCEPT !.pc = "done", !.thrown = next.lastError]]
                /\ UNCHANGED << lastRequestTime, lastDispatch >>
    /\ UNCHANGED << usageLimits, aiUsage, clockMs, callsStarted >>
    /\ LLMFrame

\* the caller has the result of a finished call
callLLMSettled(c) ==
    /\ llmCalls[c].pc = "done"
    /\ llmCalls' = [llmCalls EXCEPT ![c] = IdleLLMCall]
    /\ UNCHANGED << usageLimits, aiUsage, lastRequestTime, clockMs, lastDispatch,
                    callsStarted >>
    /\ LLMFrame

\* the timers that have not fired yet
Sleeping == { c \in LLMCalls : llmCalls[c].pc \in {"rateLimit", "backoff", "retryDelay"} }

\* time passes: a little while requests are out, or up to the next timer;
\* a timer that is due fires before the clock moves on
timePasses ==
    /\ \A c \in Sleeping : llmCalls[c].wakeAt > clockMs
    /\ \E t \in { llmCalls[c].wakeAt : c \in Sleeping } \cup { clockMs + LatencyMs } :
          /\ \A c \in Sleeping : t <= llmCalls[c].wakeAt
          /\ t = clockMs + LatencyMs => t <= MaxClockMs
          /\ clockMs' = t
    /\ UNCHANGED << usageLimits, aiUsage, lastRequestTime, llmCalls, lastDispatch,
                    callsStarted >>
    /\ LLMFrame

\* one caller of the cleanup analysis, every answer of the provider, the
\* limits and the days
NextPipeline ==
    \/ \E limits \in LimitChoices : setLimits(limits)
    \/ dayRollover
    \/ callLLM(1, "cleanupAnalysis")
    \/ enforceRateLimitResume(1)
    \/ \E answer \in Answers : fetchSettles(1, answer)
    \/ withRetryResume(1)
    \/ callLLMResume(1)
    \/ callLLMSettled(1)
    \/ timePasses

SpecPipeline == Init /\ [][NextPipeline]_vars

\* the answers of NextLimits: a response, a rejected key, a server error
LimitAnswers == { Answer(200, 0, TRUE), Answer(401, 0, TRUE), Answer(500, 0, TRUE) }

\* one caller under changing limits and days
NextLimits ==
    \/ \E limits \in LimitChoices : setLimits(limits)
    \/ dayRollover
    \/ callLLM(1, "cleanupAnalysis")
    \/ enforceRateLimitResume(1)
    \/ \E answer \in LimitAnswers : fetchSettles(1, answer)
    \/ withRetryResume(1)
    \/ callLLMResume(1)
    \/ callLLMSettled(1)
    \/ timePasses

SpecLimits == Init /\ [][NextLimits]_vars

\* the answers of NextSpacing: a response and a transient server error
SpacingAnswers == { Answer(200, 0, TRUE), Answer(500, 0, TRUE) }

\* two overlapping callers, of either module
NextSpacing ==
    \/ callLLM(1, "cleanupAnalysis")
    \/ \E service \in Services : callLLM(2, service)
    \/ \E c \in LLMCalls : enforceRateLimitResume(c)
    \/ \E c \in LLMCalls, answer \in SpacingAnswers : fetchSettles(c, answer)
    \/ \E c \in LLMCalls : withRetryResume(c)
    \/ \E c \in LLMCalls : callLLMResume(c)
    \/ \E c \in LLMCalls : callLLMSettled(c)
    \/ timePasses

SpecSpacing == Init /\ [][NextSpacing]_vars

(***************************************************************************)
(* cleanupAnalysis.ts: analyzeForCleanup                                   *)
(***************************************************************************)
\* ai/constants DEFAULT_CACHE_TTL_MS, in ticks of the cache clock
DEFAULT_CACHE_TTL_MS == 2

Max(a, b) == IF a >= b THEN a ELSE b

\* the smaller of two numbers (Math.min)
MathMin(a, b) == IF a <= b THEN a ELSE b

\* what the remote model may say about one bookmark
UpstreamShapes ==
    { [recommendation |-> "delete", reason |-> "dead link",
       reasonType |-> "broken", confidence |-> 70],
      [recommendation |-> "archive", reason |-> "",
       reasonType |-> "stale", confidence |-> 150],
      [recommendation |-> "keep", reason |-> "useful",
       reasonType |-> "valuable", confidence |-> -5],
      [recommendation |-> "review", reason |-> "unsure",
       reasonType |-> "outdated", confidence |-> 0] }

\* how callLLM may end for a batch: it throws, it returns text without JSON,
\* or it returns JSON with a list of recommendations
LLMOutcomes(batch) ==
    { [kind |-> "error", recommendations |-> <<>>],
      [kind |-> "text", recommendations |-> <<>>] }
    \cup
    { [kind |-> "json",
       recommendations |->
          [j \in 1..Len(batch) |->
              [bookmarkId |-> batch[j].id, recommendation |-> shape.recommendation,
               reason |-> shape.reason, reasonType |-> shape.reasonType,
               confidence |-> shape.confidence]]] : shape \in UpstreamShapes }

validateRecommendationType(type) ==
    IF type \in {"delete", "keep", "review"} THEN type ELSE "review"

validateReasonType(type) ==
    IF type \in {"duplicate", "broken", "outdated", "low_quality", "valuable"}
    THEN type
    ELSE "low_quality"

\* `Math.max(0, Math.min(100, r.confidence || 50))`: 0 is falsy
ingestConfidence(confidence) ==
    Max(0, MathMin(100, IF confidence = 0 THEN 50 ELSE confidence))

\* the map over parsed.recommendations (the default reason is a fixed
\* non-empty sentence)
ingest(r) ==
    [bookmarkId |-> r.bookmarkId,
     recommendation |-> validateRecommendationType(r.recommendation),
     reason |-> IF r.reason = "" THEN "no specific reason" ELSE r.reason,
     reasonType |-> validateReasonType(r.reasonType),
     confidence |-> ingestConfidence(r.confidence)]

\* (default recommendations for the first record of the batch only)
defaultRecommendationsFirstOnly(batch) ==
    << [bookmarkId |-> batch[1].id, recommendation |-> "review",
        reason |-> "cannot analyse, review manually",
        reasonType |-> "low_quality", confidence |-> 0] >>

\* the catch block of the compute function: default recommendations
defaultRecommendations(batch) ==
    [j \in 1..Len(batch) |->
        [bookmarkId |-> batch[j].id, recommendation |-> "review",
         reason |-> "cannot analyse, review manually",
         reasonType |-> "low_quality", confidence |-> 0]]

\* the compute function handed to getOrCompute
computeBatch(batch, outcome) ==
    IF outcome.kind = "json"
    THEN [j \in 1..Len(outcome.recommendations) |-> ingest(outcome.recommendations[j])]
    ELSE defaultRecommendations(batch)

\* bookmarks.slice(i, i + batchSize) of the call in progress
currentBatch == Slice(analysis.bookmarks, analysis.i, analysis.i + analysis.batchSize)

\* the cache key of a batch: its ids
healthKey(batch) == [j \in 1..Len(batch) |-> batch[j].id]

\* getOrCompute lines 178-183 over the `health:` rows: the cached row it
\* answers with, NoHealthEntry when it goes on to compute (the batch stands
\* for its generateBookmarkHash)
healthLookup(cache, time, key, bookmarkHash, forceRefresh) ==
    IF ~forceRefresh /\ cache[key] # NoHealthEntry /\ cache[key].expiresAt > time
       /\ cache[key].bookmarkHash = bookmarkHash
    THEN cache[key]
    ELSE NoHealthEntry

AnalysisFrame ==
    UNCHANGED << storeVars, navVars, dropped, cacheVars, persistVars, llmVars,
                 viewVars, flagVars, suggestVars >>

\* analyzeForCleanup up to the first getOrCompute, or to its return when
\* there is nothing to analyse
analyzeForCleanup(n, batchSize, forceRefresh) ==
    /\ analysis.pc \in {"idle", "done"}
    /\ submitted + n <= MaxSubmitted
    /\ submitted' = submitted + n
    /\ analysis' =
          [pc |-> IF n = 0 THEN "done" ELSE "lookup",
           bookmarks |-> Bookmarks(n),
           batchSize |-> IF batchSize # 0 THEN batchSize ELSE DefaultBatchSize,
           forceRefresh |-> forceRefresh,
           i |-> 0, results |-> <<>>, batches |-> <<>>]
    /\ UNCHANGED healthCache
    /\ AnalysisFrame

\* results.push(...batchResults.value), onProgress and the loop's step
pushBatch(source, outcome, value) ==
    LET next == analysis.i + analysis.batchSize
    IN  [analysis EXCEPT
           !.results = @ \o value,
           !.batches = Append(@, [records |-> currentBatch, source |-> source,
                                  upstream |-> outcome.recommendations,
                                  contributed |-> value]),
           !.i = next,
           !.pc = IF next < Len(analysis.bookmarks) THEN "lookup" ELSE "done"]

\* getOrCompute for the current batch: a valid cached row answers, or the
\* compute function is called
analyzeLookup ==
    /\ analysis.pc = "lookup"
    /\ LET cached == healthLookup(healthCache, now, healthKey(currentBatch),
                                  currentBatch, analysis.forceRefresh)
       IN  IF cached # NoHealthEntry
           THEN analysis' = pushBatch("cache", [kind |-> "none", recommendations |-> <<>>],
                                      cached.data)
           ELSE analysis' = [analysis EXCEPT !.pc = "compute"]
    /\ UNCHANGED << healthCache, submitted >>
    /\ AnalysisFrame

\* callLLM ends for the current batch: the compute function returns, the
\* value is cached and pushed
analyzeCompute(outcome) ==
    /\ analysis.pc = "compute"
    /\ LET value == computeBatch(currentBatch, outcome)
       IN  /\ healthCache' = cacheSet(healthCache, now, healthKey(currentBatch), value,
                                      currentBatch, DEFAULT_CACHE_TTL_MS)
           /\ analysis' = pushBatch(outcome.kind, outcome, value)
    /\ UNCHANGED submitted
    /\ AnalysisFrame

\* time passes for the rows of the cache
analysisTick ==
    /\ now < MaxTime
    /\ now' = now + 1
    /\ UNCHANGED << aiCache, cacheCalls, cacheReturned >>
    /\ CacheFrame

NextAnalysis ==
    \/ \E n \in 0..MaxRecords, batchSize \in 0..MaxBatchSize, forceRefresh \in BOOLEAN :
          analyzeForCleanup(n, batchSize, forceRefresh)
    \/ analyzeLookup
    \/ \E outcome \in LLMOutcomes(currentBatch) : analyzeCompute(outcome)
    \/ analysisTick

SpecAnalysis == Init /\ [][NextAnalysis]_vars

(***************************************************************************)
(* cleanupAnalysis.ts: suggestFolderStructure                              *)
(***************************************************************************)
\* how callLLM may end for a folder suggestion: it throws, or it returns
\* JSON with one suggestion, naming a record of the list and an id of none
SuggestOutcomes ==
    { [kind |-> "error", suggestions |-> <<>>],
      [kind |-> "json",
       suggestions |-> << [path |-> <<"Ops">>, suggestedBookmarkIds |-> <<1, 9>>] >>] }

\* the compute function handed to getOrCompute: the suggestions with the
\* ids that name no bookmark filtered out, [] when the call or the parsing
\* threw
computeSuggestions(bookmarks, outcome) ==
    LET validIds == { bookmarks[i].id : i \in 1..Len(bookmarks) }
    IN  IF outcome.kind = "json"
        THEN [j \in 1..Len(outcome.suggestions) |->
                [path |-> outcome.suggestions[j].path,
                 suggestedBookmarkIds |->
                    SelectSeq(outcome.suggestions[j].suggestedBookmarkIds,
                              LAMBDA id : id \in validIds)]]
        ELSE <<>>

\* getOrCompute lines 178-183 over the `category:` rows: the cached row it
\* answers with, NoCategoryEntry when it goes on to compute
categoryLookup(cache, time, key, bookmarkHash, forceRefresh) ==
    IF ~forceRefresh /\ cache[key] # NoCategoryEntry /\ cache[key].expiresAt > time
       /\ cache[key].bookmarkHash = bookmarkHash
    THEN cache[key]
    ELSE NoCategoryEntry

\* the cache key of the call in progress
suggestKey == categoryKey(suggestCall.bookmarks, suggestCall.existingFolders)

SuggestFrame ==
    UNCHANGED << storeVars, navVars, dropped, cacheVars, persistVars, llmVars,
                 analysisVars, viewVars, flagVars >>

\* suggestFolderStructure up to getOrCompute
suggestFolderStructure(bookmarks, existingFolders, forceRefresh) ==
    /\ suggestCall.pc \in {"idle", "done"}
    /\ suggestCall.calls < MaxSuggestCalls
    /\ suggestCall' =
          [pc |-> "lookup", bookmarks |-> bookmarks,
           existingFolders |-> existingFolders, forceRefresh |-> forceRefresh,
           remoteCalls |-> 0, value |-> <<>>, fromCache |-> FALSE,
           calls |-> suggestCall.calls + 1]
    /\ UNCHANGED << categoryCache, categoryMadeFrom >>
    /\ SuggestFrame

\* getOrCompute: a valid cached row answers under the hash of
\* { count: bookmarks.length }, or the compute function is called
suggestLookup ==
    /\ suggestCall.pc = "lookup"
    /\ LET cached == categoryLookup(categoryCache, now, suggestKey,
                                    Len(suggestCall.bookmarks),
                                    suggestCall.forceRefresh)
       IN  IF cached # NoCategoryEntry
           THEN suggestCall' = [suggestCall EXCEPT !.pc = "done",
                                                   !.value = cached.data,
                                                   !.fromCache = TRUE]
           ELSE suggestCall' = [suggestCall EXCEPT !.pc = "compute"]
    /\ UNCHANGED << categoryCache, categoryMadeFrom >>
    /\ SuggestFrame

\* callLLM ends: the compute function returns, the value is cached and
\* returned
suggestCompute(outcome) ==
    /\ suggestCall.pc = "compute"
    /\ LET value == computeSuggestions(suggestCall.bookmarks, outcome)
       IN  /\ categoryCache' = cacheSet(categoryCache, now, suggestKey, value,
                                        Len(suggestCall.bookmarks),
                                        DEFAULT_CACHE_TTL_MS)
           /\ suggestCall' = [suggestCall EXCEPT !.pc = "done", !.value = value,
                                                 !.remoteCalls = @ + 1]
    /\ categoryMadeFrom' = [categoryMadeFrom EXCEPT ![suggestKey] = suggestCall.bookmarks]
    /\ SuggestFrame

\* Folder suggestions for the active records as the categorization handler
\* passes them, with their top-level folders
NextSuggest ==
    \/ \E bookmarks \in SuggestInputs, forceRefresh \in BOOLEAN :
          suggestFolderStructure(bookmarks, getUniqueFolders(bookmarks), forceRefresh)
    \/ suggestLookup
    \/ \E outcome \in SuggestOutcomes : suggestCompute(outcome)
    \/ analysisTick

SpecSuggest == Init /\ [][NextSuggest]_vars

(***************************************************************************)
(* filterService.ts: the five filters and combineFilters.  Strings are     *)
(* sequences of characters.                                                *)
(***************************************************************************)
\* String.prototype.toLowerCase, character by character
lowerChar(c) ==
    CASE c = "A" -> "a"
      [] c = "D" -> "d"
      [] c = "O" -> "o"
      [] c = "T" -> "t"
      [] OTHER -> c

lowerCase(str) == [i \in 1..Len(str) |-> lowerChar(str[i])]

\* String.prototype.includes
includes(str, query) ==
    \E i \in 0..(Len(str) - Len(query)) : SubSeq(str, i + 1, i + Len(query)) = query

\* String.prototype.trim
RECURSIVE trim(_)
trim(str) ==
    IF str = <<>> THEN str
    ELSE IF Head(str) = " " THEN trim(Tail(str))
    ELSE IF str[Len(str)] = " " THEN trim(SubSeq(str, 1, Len(str) - 1))
    ELSE str

\* the bookmarks handed to combineFilters: host is getHostname(url), hasHost
\* false where it is null; title <<>> and addDate 0 where the bookmark has none
FilterRecord1 ==
    [id |-> 1, title |-> <<"T", "o">>, url |-> <<"h", ":", "a", ".", "i", "o", "/", "d">>,
     hasHost |-> TRUE, host |-> <<"a", ".", "i", "o">>,
     path |-> << <<"D", "e", "v">> >>, addDate |-> 2]

FilterRecord2 ==
    [id |-> 2, title |-> <<"d", "o", "c">>, url |-> <<"h", ":", "b", ".", "i", "o">>,
     hasHost |-> TRUE, host |-> <<"b", ".", "i", "o">>,
     path |-> << <<"D", "e", "v">>, <<"O", "p", "s">> >>, addDate |-> 5]

FilterRecord3 ==
    [id |-> 3, title |-> <<>>, url |-> <<"x">>,
     hasHost |-> FALSE, host |-> <<>>,
     path |-> <<>>, addDate |-> 0]

FilterInputs ==
    { <<>>,
      << FilterRecord1, FilterRecord2, FilterRecord3 >>,
      << FilterRecord3, FilterRecord2, FilterRecord1 >>,
      << FilterRecord2, FilterRecord2 >> }

\* the filters the panel may hold
FilterChoices ==
    [domain : { <<>>, <<"A">>, <<"i", "o">> },
     folder : { <<>>, << <<"d", "e", "v">> >>, << <<"D", "e", "v">>, <<"O", "p", "s">> >> },
     dateRange : { [set |-> FALSE, start |-> 0, end |-> 0],
                   [set |-> TRUE, start |-> 2000, end |-> 5000],
                   [set |-> TRUE, start |-> 3000, end |-> 9000] },
     searchQuery : { <<>>, <<" ">>, <<" ", "O", " ">>, <<"d", "e">> },
     recommendationStatus : { "unset", "all", "delete", "keep" }]

\* the recommendation map the selector builds, or none
RecommendationMaps ==
    { NoRecommendationMap,
      [given |-> TRUE, map |-> [id \in 1..3 |-> CASE id = 1 -> "delete"
                                                  [] id = 2 -> "keep"
                                                  [] OTHER -> "none"]] }

filterByDomain(bookmarks, domain) ==
    IF domain = <<>> THEN bookmarks
    ELSE Filter(bookmarks, LAMBDA bookmark :
                   bookmark.hasHost
                   /\ includes(lowerCase(bookmark.host), lowerCase(domain)))

filterByFolder(bookmarks, folderPath) ==
    IF folderPath = <<>> THEN bookmarks
    ELSE Filter(bookmarks, LAMBDA bookmark :
                   /\ Len(bookmark.path) >= Len(folderPath)
                   /\ \A index \in 1..Len(folderPath) :
                         lowerCase(bookmark.path[index]) = lowerCase(folderPath[index]))

\* addDate is in seconds, the range in milliseconds
filterByDateRange(bookmarks, startDate, endDate) ==
    Filter(bookmarks, LAMBDA bookmark :
              /\ bookmark.addDate # 0
              /\ bookmark.addDate * 1000 >= startDate
              /\ bookmark.addDate * 1000 <= endDate)

filterByRecommendation(bookmarks, recommendations, status) ==
    IF status = "all" THEN bookmarks
    ELSE Filter(bookmarks, LAMBDA bookmark : recommendations[bookmark.id] = status)

filterBySearchQuery(bookmarks, query) ==
    IF query = <<>> \/ trim(query) = <<>> THEN bookmarks
    ELSE LET lowerQuery == trim(lowerCase(query))
         IN  Filter(bookmarks, LAMBDA bookmark :
                       \/ includes(lowerCase(bookmark.title), lowerQuery)
                       \/ includes(lowerCase(bookmark.url), lowerQuery)
                       \/ \E k \in 1..Len(bookmark.path) :
                             includes(lowerCase(bookmark.path[k]), lowerQuery))

combineFilters(bookmarks, fs, recommendations) ==
    LET byDomain ==
            IF fs.domain # <<>> THEN filterByDomain(bookmarks, fs.domain) ELSE bookmarks
        byFolder ==
            IF fs.folder # <<>> THEN filterByFolder(byDomain, fs.folder) ELSE byDomain
        byDate ==
            IF fs.dateRange.set
            THEN filterByDateRange(byFolder, fs.dateRange.start, fs.dateRange.end)
            ELSE byFolder
        byQuery ==
            IF fs.searchQuery # <<>> THEN filterBySearchQuery(byDate, fs.searchQuery)
            ELSE byDate
    IN  IF fs.recommendationStatus \notin {"unset", "all"} /\ recommendations.given
        THEN filterByRecommendation(byQuery, recommendations.map, fs.recommendationStatus)
        ELSE byQuery

\* BookmarkSelector computes filteredBookmarks
combineFiltersCall(bookmarks, fs, recommendations) ==
    /\ filtered.calls < MaxFilterCalls
    /\ filtered' = [bookmarks |-> bookmarks, filters |-> fs,
                    recommendations |-> recommendations,
                    result |-> combineFilters(bookmarks, fs, recommendations),
                    calls |-> filtered.calls + 1]
    /\ UNCHANGED << storeVars, navVars, dropped, cacheVars, persistVars, llmVars,
                    analysisVars, flagVars, suggestVars >>

NextFilters ==
    \E bookmarks \in FilterInputs, fs \in FilterChoices,
       recommendations \in RecommendationMaps :
       combineFiltersCall(bookmarks, fs, recommendations)

SpecFilters == Init /\ [][NextFilters]_vars

(***************************************************************************)
(* FolderTree.tsx: the folder tree of the export preview                   *)
(***************************************************************************)
\* path is parent itself or lies below it, segment by segment as `===` compares
IsPrefix(parent, path) ==
    /\ Len(parent) <= Len(path)
    /\ \A i \in 1..Len(parent) : parent[i] = path[i]

\* bookmark.path.slice(0, i + 1) for every i, and [] of the root
Prefixes(path) == { SubSeq(path, 1, n) : n \in 0..Len(path) }

\* node.children of the node at `path` among the nodes of the tree
childrenOf(nodePaths, path) ==
    { p \in nodePaths : Len(p) = Len(path) + 1 /\ IsPrefix(path, p) }

RECURSIVE calculateTotalCount(_, _, _)
RECURSIVE totalOfChildren(_, _, _)
\* calculateTotalCount: node.bookmarks.length plus the totals of the children
calculateTotalCount(nodePaths, bookmarks, path) ==
    Len(Filter(bookmarks, LAMBDA b : b.path = path))
       + totalOfChildren(nodePaths, bookmarks, childrenOf(nodePaths, path))

\* the loop `for (const child of node.children) total += ...`
totalOfChildren(nodePaths, bookmarks, children) ==
    IF children = {}
    THEN 0
    ELSE LET child == CHOOSE p \in children : TRUE
         IN  calculateTotalCount(nodePaths, bookmarks, child)
                + totalOfChildren(nodePaths, bookmarks, children \ {child})

\* buildFolderTree that leaves in bookmarkCount the records of the node itself
buildFolderTreeOwnCount(bookmarks) ==
    LET nodePaths == UNION { Prefixes(bookmarks[i].path) : i \in 1..Len(bookmarks) }
                        \cup { <<>> }
    IN  { [path |-> p,
           bookmarks |-> Filter(bookmarks, LAMBDA b : b.path = p),
           bookmarkCount |-> Len(Filter(bookmarks, LAMBDA b : b.path = p))] :
            p \in nodePaths }

\* buildFolderTree: the nodes of the tree, each under the path that leads to
\* it (a child is found by `c.name === segment`, so a path names one node);
\* the root and one node per prefix of a bookmark's path, every bookmark
\* pushed to the node at the end of its path, the counts totalled bottom-up
buildFolderTree(bookmarks) ==
    LET nodePaths == UNION { Prefixes(bookmarks[i].path) : i \in 1..Len(bookmarks) }
                        \cup { <<>> }
    IN  { [path |-> p,
           bookmarks |-> Filter(bookmarks, LAMBDA b : b.path = p),
           bookmarkCount |-> calculateTotalCount(nodePaths, bookmarks, p)] :
            p \in nodePaths }

(***************************************************************************)
(* Properties                                                              *)
(***************************************************************************)
Min(a, b) == IF a <= b THEN a ELSE b

\* history `after` is history `before` with one entry appended as the most
\* recent one, the oldest entries dropped once the capacity is exceeded
AppendedOne(before, after) ==
    /\ Len(after) = Min(Len(before) + 1, MAX_HISTORY_SIZE)
    /\ \A i \in 1..(Len(after) - 1) :
          after[i] = before[i + (Len(before) + 1 - Len(after))]

\* C1: a delete, move or create_folder operation followed at once by an undo
\* whose store write succeeds leaves the soft-deleted set, every record's
\* path, the pending moves and the created folders as they were before the
\* operation.
UndoRestoresPreviousState ==
    trail.phase = "undone" => Restorable = trail.before

\* a deleteSelected call with a selection
DeleteStep == deleteSelected /\ selectedBookmarkIds # {}

\* what a deleteSelected call leaves: the selected ids out of the active set,
\* no selection, one delete entry with the selected working records appended
DeletedAndRecorded ==
    /\ selectedBookmarkIds \cap ActiveIds' = {}
    /\ selectedBookmarkIds' = {}
    /\ AppendedOne(operationHistory, operationHistory')
    /\ LET entry == operationHistory'[Len(operationHistory')]
       IN  /\ entry.type = "delete"
           /\ IdsOf(entry.bookmarks) = selectedBookmarkIds \cap IdsOf(workingBookmarks)
           /\ Range(entry.bookmarks) \subseteq Range(workingBookmarks)

MoveSetsPathAndUndoRestoresIt ==
    [][ /\ \A ids \in IdLists, target \in MoveTargets :
              moveBookmarksToFolder(ids, target) =>
                 /\ Len(workingBookmarks') = Len(workingBookmarks)
                 /\ \A i \in 1..Len(workingBookmarks) :
                       /\ workingBookmarks'[i].id = workingBookmarks[i].id
                       /\ workingBookmarks'[i].path =
                             IF workingBookmarks[i].id \in Range(ids)
                             THEN target
                             ELSE workingBookmarks[i].path
                 /\ LET entry == operationHistory'[Len(operationHistory')]
                    IN  /\ entry.type = "move"
                        /\ Len(entry.moves) = Len(ids)
                        /\ \A j \in 1..Len(ids) :
                              /\ entry.moves[j].bookmarkId = ids[j]
                              /\ entry.moves[j].toPath = target
                              /\ \A i \in 1..Len(workingBookmarks) :
                                    workingBookmarks[i].id = ids[j] =>
                                       entry.moves[j].fromPath = workingBookmarks[i].path
        /\ \A k \in 1..Len(undoInFlight) :
              (undoResume(k, TRUE) /\ undoInFlight[k].operation.type = "move") =>
                 \A j \in 1..Len(undoInFlight[k].operation.moves) :
                    \A i \in 1..Len(workingBookmarks') :
                       workingBookmarks'[i].id =
                             undoInFlight[k].operation.moves[j].bookmarkId
                          => workingBookmarks'[i].path =
                                undoInFlight[k].operation.moves[j].fromPath
        /\ (trail'.phase = "undone" /\ trail'.type = "move")
              => workingBookmarks' = trail'.before.working ]_vars

\* C3 witness: a move that changed a path has been undone
PathChangingMoveUndone ==
    /\ trail.phase = "undone"
    /\ trail.type = "move"
    /\ trail.after.working # trail.before.working
    /\ workingBookmarks = trail.before.working

\* C4: an OperationHistory never holds more than 10 entries; recordOperation
\* makes its argument the most recent entry and keeps the entries before it
\* in order, dropping only the oldest ones once there would be more than 10.
HistoryKeepsLastTen ==
    /\ [](Len(operationHistory) <= MAX_HISTORY_SIZE)
    /\ [][ \A operation \in HistoryOperations :
              historyRecordOperation(operation) =>
                 /\ operationHistory'[Len(operationHistory')] = operation
                 /\ AppendedOne(operationHistory, operationHistory') ]_vars

\* C4 witness: a full history from which recordOperation has trimmed an entry
FullHistoryTrimmed ==
    /\ dropped > 0
    /\ Len(operationHistory) = MAX_HISTORY_SIZE

\* the inverse of a recorded operation is in force in the given session
Inverted(operation, session) ==
    CASE operation.type = "delete" ->
            IdsOf(operation.bookmarks) \cap session.deleted = {}
      [] operation.type = "move" ->
            \A j \in 1..Len(operation.moves) :
               /\ \A i \in 1..Len(session.working) :
                     session.working[i].id = operation.moves[j].bookmarkId
                        => session.working[i].path = operation.moves[j].fromPath
               /\ \A n \in 1..Len(session.pending) :
                     session.pending[n].bookmarkId # operation.moves[j].bookmarkId
      [] operation.type = "create_folder" ->
            operation.path \notin Range(session.created)
      [] OTHER -> FALSE

\* C5: undo on an empty history changes nothing; on a history with entries it
\* removes the most recent entry, never appends one, and inverts the entry it
\* removed.
UndoPopsAndInvertsLast ==
    [][ /\ (~canUndo(operationHistory) /\ undo) => UNCHANGED storeVars
        /\ (canUndo(operationHistory) /\ undo) =>
              /\ operationHistory' = SliceButLast(operationHistory)
              /\ peekLast(operationHistory).type = "create_folder"
                    => Inverted(peekLast(operationHistory), Restorable')
        /\ \A k \in 1..Len(undoInFlight) :
              (\E storeOk \in BOOLEAN : undoResume(k, storeOk)) =>
                 /\ operationHistory' = operationHistory
                 /\ Inverted(undoInFlight[k].operation, Restorable') ]_vars

\* the three cases in which C6 has createFolder reject the path
RejectedFolderPath(path) ==
    \/ Len(path) = 0
    \/ \E i \in 1..Len(workingBookmarks) :
          LET recordPath == workingBookmarks[i].path
              parent == SliceButLast(path)
          IN  /\ Len(recordPath) > Len(parent)
              /\ \A j \in 1..Len(parent) :
                    toLowerCase(recordPath[j]) = toLowerCase(parent[j])
              /\ toLowerCase(recordPath[Len(parent) + 1]) = toLowerCase(path[Len(path)])
    \/ path \in Range(createdFolders)

\* C6: createFolder(path) returns false and changes no session field when the
\* path is empty, when a working record's path has under the same parent a
\* segment equal to the folder name ignoring case, or when the path is
\* already in the created-folder list; otherwise it returns true, appends
\* the path to the created-folder list and one create_folder entry to the
\* history.
CreateFolderRejectsExactlyDuplicates ==
    [][ \A path \in FolderPaths :
           createFolder(path) =>
              IF RejectedFolderPath(path)
              THEN /\ returned' = FALSE
                   /\ UNCHANGED << workflowStarted, hasUnsavedChanges, workingBookmarks,
                                   selectedBookmarkIds, deletedBookmarkIds,
                                   aiRecommendations, suggestedFolders, pendingMoves,
                                   createdFolders, operationHistory, undoInFlight >>
              ELSE /\ returned' = TRUE
                   /\ createdFolders' = Append(createdFolders, path)
                   /\ AppendedOne(operationHistory, operationHistory')
                   /\ operationHistory'[Len(operationHistory')] =
                         createFolderOperation(path) ]_vars

\* C7: getOrCompute answers from the cache, tagged fromCache, without calling
\* compute exactly when forceRefresh is off, the key has an entry, the clock
\* is before its expiresAt and its hash is the caller's; in every other case
\* it calls compute once and answers with that result, not tagged fromCache.
CacheHitExactlyWhenValid ==
    [][ /\ \A caller \in Callers, key \in CacheKeys, bookmarkHash \in BookmarkHashes,
              ttlMs \in TtlChoices, forceRefresh \in BOOLEAN :
              getOrComputeStart(caller, key, bookmarkHash, ttlMs, forceRefresh) =>
                 IF /\ ~forceRefresh
                    /\ aiCache[key] # NoEntry
                    /\ now < aiCache[key].expiresAt
                    /\ aiCache[key].bookmarkHash = bookmarkHash
                 THEN /\ cacheReturned' = [caller |-> caller,
                                           value |-> aiCache[key].data,
                                           fromCache |-> TRUE, computes |-> 0]
                      /\ cacheCalls'[caller].pc = "idle"
                 ELSE /\ cacheCalls'[caller].pc = "compute"
                      /\ cacheCalls'[caller].computes = 0
                      /\ cacheReturned' = cacheReturned
        /\ \A caller \in Callers, value \in CacheValues :
              getOrComputeCompute(caller, value) =>
                 /\ cacheCalls[caller].computes = 0
                 /\ cacheCalls'[caller].computes = 1
                 /\ cacheCalls'[caller].value = value
        /\ \A caller \in Callers :
              getOrComputeStore(caller) =>
                 cacheReturned' = [caller |-> caller,
                                   value |-> cacheCalls[caller].value,
                                   fromCache |-> FALSE, computes |-> 1] ]_vars

\* C7 witness: a call was answered from the cache after the clock had moved
AnsweredFromCache ==
    /\ cacheReturned.fromCache
    /\ cacheReturned.computes = 0
    /\ now > 0

\* C8: a getOrCompute call that computed leaves under its key the computed
\* value, the caller's hash and the expiry now + ttl in place of whatever was
\* there, so that a lookup with that hash is a hit with the new value and a
\* lookup with any other hash is a miss.
MissStoresFreshEntry ==
    [][ \A caller \in Callers :
           getOrComputeStore(caller) =>
              LET call == cacheCalls[caller]
              IN  /\ aiCache'[call.key] =
                        [data |-> call.value, bookmarkHash |-> call.bookmarkHash,
                         expiresAt |-> now + call.ttlMs]
                  /\ \A key \in CacheKeys \ {call.key} : aiCache'[key] = aiCache[key]
                  /\ cacheLookup(aiCache', now', call.key, call.bookmarkHash, FALSE).data
                        = call.value
                  /\ \A other \in BookmarkHashes \ {call.bookmarkHash} :
                        cacheLookup(aiCache', now', call.key, other, FALSE) = NoEntry ]_vars

\* C8 witness: a computed value was stored after the clock had moved and is
\* still the unexpired entry of a key
ComputedValueStored ==
    /\ cacheReturned.caller # 0
    /\ ~cacheReturned.fromCache
    /\ now > 0
    /\ \E key \in CacheKeys :
          /\ aiCache[key].data = cacheReturned.value
          /\ aiCache[key].expiresAt > now

\* C9: acceptFolderSuggestion(s) moves to s.path exactly the suggested ids
\* that are active; a suggested id that is soft-deleted or names no working
\* record gets no path change, no pending move and no entry in the logged
\* move operation.
AcceptSuggestionMovesActiveOnly ==
    [][ \A n \in 1..Len(suggestedFolders) :
           acceptFolderSuggestion(suggestedFolders[n]) =>
              LET s == suggestedFolders[n]
                  moved == Range(s.suggestedBookmarkIds) \cap ActiveIds
              IN  /\ \A i \in 1..Len(workingBookmarks) :
                        workingBookmarks'[i].path =
                           IF workingBookmarks[i].id \in moved
                           THEN s.path
                           ELSE workingBookmarks[i].path
                  /\ { pendingMoves'[j].bookmarkId :
                         j \in (Len(pendingMoves) + 1)..Len(pendingMoves') } = moved
                  /\ moved # {} =>
                        LET entry == operationHistory'[Len(operationHistory')]
                        IN  /\ entry.type = "move"
                            /\ { entry.moves[j].bookmarkId :
                                   j \in 1..Len(entry.moves) } = moved ]_vars

\* C10: selectByRecommendation(type) makes the selection exactly the ids of
\* the active records that have a recommendation of that type not marked
\* rejected.
SelectByRecommendationSelectsActive ==
    [][ \A type \in RecommendationTypes :
           selectByRecommendation(type) =>
              selectedBookmarkIds' =
                 { id \in ActiveIds :
                     \E i \in 1..Len(aiRecommendations) :
                        /\ aiRecommendations[i].bookmarkId = id
                        /\ aiRecommendations[i].recommendation = type
                        /\ ~aiRecommendations[i].rejected } ]_vars

\* the selected count ReviewDeleteStage and BookmarkSelector display
selectedCount == Cardinality(selectedBookmarkIds)

\* the number of distinct ids in an array of ids
RECURSIVE DistinctCount(_)
DistinctCount(ids) ==
    IF Len(ids) = 0
    THEN 0
    ELSE LET front == SliceButLast(ids)
         IN  DistinctCount(front)
                + (IF \E i \in 1..Len(front) : front[i] = ids[Len(ids)] THEN 0 ELSE 1)

\* C11: toggleBookmarkSelection(id) flips the membership of exactly id,
\* selectAll(ids) makes the selection exactly the ids given and deselectAll
\* empties it, and after each of them the reported selected count is the
\* number of distinct ids selected.
SelectionCountConsistent ==
    [][ /\ \A id \in Ids :
              toggleBookmarkSelection(id) =>
                 /\ \A other \in Ids \ {id} :
                       (other \in selectedBookmarkIds') = (other \in selectedBookmarkIds)
                 /\ (id \in selectedBookmarkIds') = (id \notin selectedBookmarkIds)
                 /\ selectedCount' =
                       selectedCount + (IF id \in selectedBookmarkIds THEN -1 ELSE 1)
        /\ \A ids \in SelectAllLists :
              selectAll(ids) =>
                 /\ \A id \in Ids :
                       (id \in selectedBookmarkIds') = (\E i \in 1..Len(ids) : ids[i] = id)
                 /\ selectedCount' = DistinctCount(ids)
        /\ deselectAll =>
              /\ selectedBookmarkIds' = {}
              /\ selectedCount' = 0 ]_vars

\* C11 witness: two ids are selected, one of them an id handed over twice
TwoDistinctIdsSelected ==
    /\ workflowStarted
    /\ selectedCount = 2
    /\ selectedBookmarkIds = {"a", "x"}

\* the stage after `stage` in review, organize, preview; the last one stays
StageAfter(stage) ==
    CASE stage = "review" -> "organize"
      [] stage = "organize" -> "preview"
      [] OTHER -> "preview"

\* the stage before `stage`; the first one stays
StageBefore(stage) ==
    CASE stage = "preview" -> "organize"
      [] stage = "organize" -> "review"
      [] OTHER -> "review"

FreshStore ==
    /\ ~workflowStarted
    /\ sessionId = 0
    /\ workingBookmarks = <<>>
    /\ selectedBookmarkIds = {}
    /\ deletedBookmarkIds = {}
    /\ filters = NoFilters
    /\ currentStage = "review"

\* C18: loadSession straight after saveSession, in the same store or in the
\* store created anew by a page load, leaves the session equivalent to the
\* one saved: same stage, selection, soft-deleted set, pending moves, created
\* folders, history, recommendations, suggested folders, filters and active
\* record list.
SaveLoadRoundTrip ==
    [][ ( /\ loadSessionResume("record")
          /\ Len(cleanupSessions) > 0
          /\ \/ SessionView = savedFrom[getLatestCleanupSession(cleanupSessions).id]
             \/ FreshStore )
        => SessionView' = savedFrom[getLatestCleanupSession(cleanupSessions).id] ]_vars

\* what the entries of a history record: records removed by its delete
\* entries, record moves in its move entries, create_folder entries
RECURSIVE RecordedCounts(_)
RecordedCounts(history) ==
    IF Len(history) = 0
    THEN [deleted |-> 0, moved |-> 0, newFolders |-> 0]
    ELSE LET rest == RecordedCounts(SliceButLast(history))
             entry == history[Len(history)]
         IN  [deleted |-> rest.deleted
                            + (IF entry.type = "delete" THEN Len(entry.bookmarks) ELSE 0),
              moved |-> rest.moved
                          + (IF entry.type = "move" THEN Len(entry.moves) ELSE 0),
              newFolders |-> rest.newFolders
                               + (IF entry.type = "create_folder" THEN 1 ELSE 0)]

\* C20: in every reachable state the change-summary counts deleted, moved
\* and new folders equal the records removed by the recorded delete entries,
\* the record moves in the recorded move entries and the number of recorded
\* create_folder entries.
ChangeSummaryMatchesHistory ==
    undoInFlight = <<>> => getChangeSummary = RecordedCounts(operationHistory)

\* the ceilings as configured: the usage each one bounds and its value
Ceilings ==
    { << aiUsage.today.tokens, usageLimits.dailyTokenLimit >>,
      << aiUsage.earlier.tokens + aiUsage.today.tokens, usageLimits.monthlyTokenLimit >>,
      << aiUsage.today.cost, usageLimits.dailyCostLimit >>,
      << aiUsage.earlier.cost + aiUsage.today.cost, usageLimits.monthlyCostLimit >> }

CeilingReached == \E ceiling \in Ceilings : ceiling[2] # 0 /\ ceiling[1] >= ceiling[2]

\* C13: a callLLM call made while some configured daily or monthly ceiling
\* on tokens or cost is reached (usage at or above it) fails with the
\* non-retryable usage-limit error, having made no remote call, slept or
\* retried; a call made while no configured ceiling is reached goes on to
\* its first attempt, and no later step of a call raises that error.
UsageLimitBlocksCall ==
    [][\A c \in LLMCalls :
          /\ (llmCalls[c].pc = "idle" /\ llmCalls'[c].pc # "idle") =>
                IF CeilingReached
                THEN /\ llmCalls'[c].pc = "done"
                     /\ llmCalls'[c].thrown.code = "USAGE_LIMIT_REACHED"
                     /\ ~llmCalls'[c].thrown.retryable
                     /\ llmCalls'[c].chats = 0 /\ llmCalls'[c].fetches = 0
                     /\ llmCalls'[c].sleeps = 0 /\ llmCalls'[c].attempt = 0
                     /\ lastDispatch' = lastDispatch
                ELSE /\ llmCalls'[c].pc \in {"fetch", "rateLimit"}
                     /\ llmCalls'[c].thrown = NoError
          /\ (llmCalls[c].pc \notin {"idle", "done"} /\ llmCalls'[c].pc = "done") =>
                llmCalls'[c].thrown.code # "USAGE_LIMIT_REACHED"]_vars

\* a call was refused on the monthly cost ceiling while a daily token ceiling
\* that is configured too was not reached
CallRefusedAtCeiling ==
    /\ llmCalls[1].pc = "done"
    /\ llmCalls[1].thrown.code = "USAGE_LIMIT_REACHED"
    /\ usageLimits.dailyTokenLimit = 2 /\ usageLimits.monthlyCostLimit = 1
    /\ aiUsage.today = NoUsage /\ aiUsage.earlier.cost = 1

\* C14: in callLLM an attempt that fails with a non-retryable error ends the
\* call with that error at once; one that fails with a retryable error is
\* followed, after a delay of the provider's retry-after when the answer
\* gives one and of RETRY_DELAY_MS * 2^attempt otherwise, by another
\* attempt, up to MAX_RETRIES attempts in all; after the last attempt its
\* error is the one raised.  An attempt is a request sent to the provider,
\* numbered from 0 within the call.
RetriesBoundedAndDelayed ==
    [][\A c \in LLMCalls :
          LET before == llmCalls[c]
              after == llmCalls'[c]
              error == requestError(after.answer)
              attempt == after.fetches - 1
          IN  (before.pc = "fetch" /\ after.pc # "fetch" /\ error # NoError) =>
                 /\ after.fetches <= MAX_RETRIES
                 /\ (error.isAIServiceError /\ ~error.retryable) =>
                       (after.pc = "done" /\ after.thrown = error)
                 /\ (error.retryable /\ after.fetches < MAX_RETRIES) =>
                       /\ after.pc \in {"backoff", "retryDelay"}
                       /\ after.slept = IF after.answer.retry_after # 0
                                        THEN after.answer.retry_after * 1000
                                        ELSE RETRY_DELAY_MS * Pow2(attempt)
                 /\ after.pc = "done" => after.thrown = error]_vars

\* C15: any two remote requests of the process, whichever call, module or
\* retry sends them, are sent at least MIN_REQUEST_INTERVAL_MS apart: a
\* request is never sent sooner than that after the latest one before it.
RemoteCallsSpaced ==
    [][\A c \in LLMCalls :
          (llmCalls[c].pc # "fetch" /\ llmCalls'[c].pc = "fetch" /\ lastDispatch # 0) =>
             clockMs - lastDispatch >= MIN_REQUEST_INTERVAL_MS]_vars

\* ceil(n / b) for b > 0
CeilDiv(n, b) == (n + b - 1) \div b

\* the contributions of the first k batches, one after the other
RECURSIVE Contributions(_, _)
Contributions(batches, k) ==
    IF k = 0 THEN <<>> ELSE Contributions(batches, k - 1) \o batches[k].contributed

\* C16: analyzeForCleanup over N records with batch size B works through
\* ceil(N/B) batches, the k-th being records (k-1)B+1 .. min(kB, N) of the
\* input; a batch whose remote call failed contributes exactly one 'review'
\* recommendation with confidence 0 for each of its records, the batches
\* after it are processed all the same, and the call returns the
\* contributions of all batches in order.
FailedBatchFallsBackAndAnalysisGoesOn ==
    LET N == Len(analysis.bookmarks)
        B == analysis.batchSize
        batches == analysis.batches
    IN  analysis.pc # "idle" =>
           /\ \A k \in 1..Len(batches) :
                 /\ batches[k].records =
                       SubSeq(analysis.bookmarks, (k - 1) * B + 1, Min(k * B, N))
                 /\ batches[k].source = "error" =>
                       /\ Len(batches[k].contributed) = Len(batches[k].records)
                       /\ \A j \in 1..Len(batches[k].records) :
                             /\ batches[k].contributed[j].bookmarkId =
                                   batches[k].records[j].id
                             /\ batches[k].contributed[j].recommendation = "review"
                             /\ batches[k].contributed[j].confidence = 0
           /\ analysis.results = Contributions(batches, Len(batches))
           /\ IF analysis.pc = "done"
              THEN Len(batches) = CeilDiv(N, B)
              ELSE Len(batches) < CeilDiv(N, B)

\* three records in batches of two: the first batch failed, the second was
\* answered, and the call returned
AnalysisSurvivedFailedBatch ==
    /\ analysis.pc = "done"
    /\ Len(analysis.bookmarks) = 3 /\ analysis.batchSize = 2
    /\ Len(analysis.batches) = 2
    /\ analysis.batches[1].source = "error"
    /\ analysis.batches[2].source = "json"
    /\ Len(analysis.results) = 3

\* a value clamped into 0..100
Clamped(value) == IF value < 0 THEN 0 ELSE IF value > 100 THEN 100 ELSE value

\* C17: every recommendation analyzeForCleanup returns has a confidence in
\* 0..100, a type among delete, keep and review, and a non-empty reason; one
\* made from an answer of the remote model has that answer's confidence
\* clamped into 0..100 (kept when already in range) and its type when that is
\* one of the three, review otherwise.
RecommendationsClampedAndValidated ==
    /\ \A j \in 1..Len(analysis.results) :
          /\ analysis.results[j].confidence \in 0..100
          /\ analysis.results[j].recommendation \in {"delete", "keep", "review"}
          /\ analysis.results[j].reason # ""
    /\ \A k \in 1..Len(analysis.batches) :
          analysis.batches[k].source = "json" =>
             \A j \in 1..Len(analysis.batches[k].upstream) :
                LET upstream == analysis.batches[k].upstream[j]
                    returned_ == analysis.batches[k].contributed[j]
                IN  /\ returned_.confidence = Clamped(upstream.confidence)
                    /\ returned_.recommendation =
                          IF upstream.recommendation \in {"delete", "keep", "review"}
                          THEN upstream.recommendation
                          ELSE "review"

\* what each filter asks of a record, when it is set
InDomain(b, domain) == b.hasHost /\ includes(lowerCase(b.host), lowerCase(domain))

UnderFolder(b, folder) ==
    /\ Len(b.path) >= Len(folder)
    /\ \A k \in 1..Len(folder) : lowerCase(b.path[k]) = lowerCase(folder[k])

InDateRange(b, range) ==
    b.addDate # 0 /\ range.start <= b.addDate * 1000 /\ b.addDate * 1000 <= range.end

MatchesText(b, text) ==
    \E field \in {b.title, b.url} \cup Range(b.path) :
       includes(lowerCase(field), lowerCase(text))

HasStatus(b, recommendations, status) == recommendations.map[b.id] = status

\* the record satisfies every filter of `fs` that is set
SatisfiesAll(b, fs, recommendations) ==
    /\ fs.domain # <<>> => InDomain(b, fs.domain)
    /\ fs.folder # <<>> => UnderFolder(b, fs.folder)
    /\ fs.dateRange.set => InDateRange(b, fs.dateRange)
    /\ trim(fs.searchQuery) # <<>> => MatchesText(b, trim(fs.searchQuery))
    /\ fs.recommendationStatus \notin {"unset", "all"} =>
          HasStatus(b, recommendations, fs.recommendationStatus)

Places(tree, id) ==
    UNION { { <<n.path, j>> : j \in { k \in 1..Len(n.bookmarks) :
                                         n.bookmarks[k].id = id } } : n \in tree }

\* the record with the given id is listed once in the tree, in the node at path
ListedOnceAt(tree, id, path) ==
    \E j \in 1..Len(workingBookmarks) : Places(tree, id) = { <<path, j>> }

\* C21: the folder tree built from the active records lists every active
\* record exactly once, in the node whose path is the record's path, lists no
\* soft-deleted record, and every node's count is the number of active records
\* in that folder or below it; straight after a move every active moved record
\* is listed in the node of the target path, and once that move is undone
\* every active record is listed in the node of the path it had before the move.
FolderTreeComplete ==
    LET tree == buildFolderTree(getActiveBookmarks)
    IN  /\ \A i \in 1..Len(workingBookmarks) :
              IF workingBookmarks[i].id \in deletedBookmarkIds
              THEN Places(tree, workingBookmarks[i].id) = {}
              ELSE ListedOnceAt(tree, workingBookmarks[i].id, workingBookmarks[i].path)
        /\ \A id \in deletedBookmarkIds : Places(tree, id) = {}
        /\ \A n \in tree :
              n.bookmarkCount =
                 Cardinality({ i \in 1..Len(workingBookmarks) :
                                 /\ workingBookmarks[i].id \notin deletedBookmarkIds
                                 /\ IsPrefix(n.path, workingBookmarks[i].path) })
        /\ (trail.phase = "applied" /\ trail.type = "move") =>
              LET entry == peekLast(operationHistory)
              IN  \A j \in 1..Len(entry.moves) :
                     entry.moves[j].bookmarkId \in ActiveIds =>
                        ListedOnceAt(tree, entry.moves[j].bookmarkId,
                                     entry.moves[j].toPath)
        /\ (trail.phase = "undone" /\ trail.type = "move") =>
              \A id \in ActiveIds :
                 ListedOnceAt(tree, id, PathOfId(trail.before.working, id))

\* C21 witness: record a was moved from the root below Dev and the move was
\* undone; the tree lists a in the root, which counts both records, and b in Dev
MovedRecordBackInTree ==
    /\ trail.phase = "undone"
    /\ trail.type = "move"
    /\ PathOfId(trail.after.working, "a") = <<"Dev", "Ops">>
    /\ deletedBookmarkIds = {}
    /\ [path |-> <<>>, bookmarks |-> << [id |-> "a", path |-> <<>>] >>,
        bookmarkCount |-> 2] \in buildFolderTree(getActiveBookmarks)
    /\ [path |-> <<"Dev">>, bookmarks |-> << [id |-> "b", path |-> <<"Dev">>] >>,
        bookmarkCount |-> 1] \in buildFolderTree(getActiveBookmarks)

\* C22: when the store write of an undone delete or move fails, the undo
\* leaves the soft-deleted set, the record paths and the pending moves as
\* they were, and the history still holds the entry the undo was to invert,
\* so that a later undo can invert it.  (undo's promise carries no value, so
\* the property is stated on the session.)
FailedUndoLeavesSessionAndEntry ==
    [][ \A k \in 1..Len(undoInFlight) :
           undoResume(k, FALSE) =>
              /\ UNCHANGED << deletedBookmarkIds, workingBookmarks, pendingMoves >>
              /\ \E i \in 1..Len(operationHistory') :
                    operationHistory'[i] = undoInFlight[k].operation ]_vars

\* an undo call that finds a create_folder entry as the most recent one
UndoOfCreateFolder ==
    /\ undo
    /\ canUndo(operationHistory)
    /\ peekLast(operationHistory).type = "create_folder"

UndoKeepsInterleavedMutations ==
    [][ \A k \in 1..Len(undoInFlight) :
           undoResume(k, TRUE) =>
              LET operation == undoInFlight[k].operation
                  result == executeUndo(operation, workingBookmarks, TRUE)
              IN  Restorable' = undoApplied(operation, result, Restorable) ]_vars

\* C26: the fallback recommendations substituted for a batch whose remote
\* call failed are never served as a cache hit: when getOrCompute looks up a
\* batch whose row holds that fallback, without forceRefresh and before the
\* row expires, it goes on to the remote call all the same.
FallbackNeverServedFromCache ==
    [][ ( /\ analyzeLookup
          /\ healthCache[healthKey(currentBatch)].data =
                defaultRecommendations(currentBatch) )
           => analysis'.pc = "compute" ]_vars

\* two folder paths are equal when compared ignoring case
EqualIgnoringCase(f, g) ==
    /\ Len(f) = Len(g)
    /\ \A i \in 1..Len(f) : toLowerCase(f[i]) = toLowerCase(g[i])

\* C30: the created-folder list never holds two paths that are equal when
\* compared ignoring case.
CreatedFoldersDifferIgnoringCase ==
    \A i, j \in 1..Len(createdFolders) :
       i # j => ~EqualIgnoringCase(createdFolders[i], createdFolders[j])

\* C29: whenever the soft-deleted set, the pending-move list or the
\* created-folder list differs from what the last completed saveSession of
\* the session stored, hasUnsavedChanges is true.  (saveSession stores no
\* record path; a path changes only together with the pending-move list.)
UnsavedChangesFlagged ==
    (workflowStarted /\ sessionId # 0 /\ savedFrom[sessionId] # NoSnapshot) =>
       LET saved == savedFrom[sessionId]
       IN  ( \/ saved.deleted # deletedBookmarkIds
             \/ saved.pending # pendingMoves
             \/ saved.created # createdFolders )
              => hasUnsavedChanges

\* a loadSession call resumes with nothing to load: no record is stored, the
\* read rejects, or the stored data does not decode
LoadFails(read) ==
    /\ loadSessionResume(read)
    /\ read # "record" \/ Len(cleanupSessions) = 0

\* C23: a loadSession that finds no stored session, or whose read or
\* decoding fails, returns false, leaves the stage, the selection, the
\* soft-deleted set, the pending moves, the created folders, the history, the
\* recommendations and the suggested folders as they were, and leaves the
\* loading flag false; the flag is true while the call awaits its read.
LoadFailureLeavesSession ==
    /\ [](loadInFlight => isLoading)
    /\ [][ \A read \in LoadReads :
              LoadFails(read) =>
                 /\ loadReturned' = FALSE
                 /\ isLoading' = FALSE
                 /\ UNCHANGED << currentStage, selectedBookmarkIds, deletedBookmarkIds,
                                 pendingMoves, createdFolders, operationHistory,
                                 aiRecommendations, suggestedFolders, sessionId,
                                 workingBookmarks, workflowStarted >> ]_vars

\* C23 witness: a session with a soft-deleted record, moved on to the next
\* stage after it was saved, has been through a loadSession whose stored data
\* did not decode
UndecodableLoadSurvived ==
    /\ loadRead = "undecodable"
    /\ ~loadInFlight
    /\ ~isLoading
    /\ loadReturned = FALSE
    /\ workflowStarted
    /\ deletedBookmarkIds # {}
    /\ currentStage = "organize"

\* the request in flight at position k resumes
RequestResumes(k) ==
    \/ \E outcome \in RequestOutcomes, recommendations \in RecommendationLists :
          handleRequestAIAnalysisResume(k, outcome, recommendations)
    \/ \E outcome \in RequestOutcomes, suggestions \in SuggestionLists :
          handleRequestAICategorizationResume(k, outcome, suggestions)

\* C27: the response of a request dispatched before resetWorkflow or
\* initWorkflow that arrives in the session started afterwards changes
\* neither the recommendations nor the suggested folders of that session,
\* and isAnalyzing is true exactly while a request of the current session is
\* in flight.
LateResponsesIgnored ==
    /\ [][ \A k \in 1..Len(aiRequests) :
              ( /\ RequestResumes(k)
                /\ sessionId # 0
                /\ aiRequests[k].session # sessionId )
                 => UNCHANGED << aiRecommendations, suggestedFolders >> ]_vars
    /\ [](isAnalyzing <=> \E k \in 1..Len(aiRequests) :
                              aiRequests[k].session = sessionId)

\* C28: suggestFolderStructure without forceRefresh goes to the remote call
\* whenever the bookmarks it is given differ, in a title, a URL or a path,
\* from those that produced the row stored under its key, also when the ids
\* and the existing folders are the same and the row has not expired.
EditedBookmarksSuggestedAfresh ==
    [][ ( /\ suggestLookup
          /\ ~suggestCall.forceRefresh
          /\ categoryCache[suggestKey] # NoCategoryEntry
          /\ categoryMadeFrom[suggestKey] # suggestCall.bookmarks )
           => suggestCall'.pc = "compute" ]_vars

====
